---- MODULE Spec2Model ----
(***************************************************************************)
(* Client-side test scripts of the VS Code LM proxy: the request helper    *)
(* make_request / req, and the scripts built on it (test_adk.py,           *)
(* test_assistants.py, test_thread_isolation.py, test_agent.py,            *)
(* test_complex_agents.py).  The server is the environment: every response *)
(* is a nondeterministic input.                                            *)
(*                                                                         *)
(* A body text is a sequence of lexical atoms: single characters, except   *)
(* that a JSON string literal is one atom.                                 *)
(***************************************************************************)
EXTENDS Integers, Sequences, FiniteSets, TLC

VARIABLES
    \* one call of make_request
    mr_pc,        \* "start", "waiting", "returned", "raised"
    mr_data,      \* the data argument
    mr_method,    \* the method argument
    mr_srv,       \* what the server does with the request of this call
    mr_sent,      \* the requests urlopen has issued, in order
    mr_inflight,  \* requests issued and not yet answered or failed
    mr_ret,       \* what the call produced: a returned pair or an exception
    \* one run of test_assistants.py
    as_pc,        \* the call the script is about to make, or "summary",
                  \* "done", "aborted" (an exception left the script)
    as_up,        \* FALSE: the server is unreachable for the whole run
    as_results,   \* the results dict: <<name, passed>> in insertion order
    as_thread,    \* thread_id of the running test
    as_created,   \* what the create call of test_thread_lifecycle returned,
                  \* NoResult before it did
    as_run,       \* run of test_thread_lifecycle
    as_turn,      \* test_multiturn: turns completed
    as_log,       \* the requests issued: [op, tid], in order
    as_out,       \* what the summary printed
    as_exc,       \* the exception that ended the script
    \* one run of test_thread_isolation.py
    is_pc,        \* "call", "verify", "done", "aborted"
    is_k,         \* index in IsoPlan of the call the script is about to make
    is_t1,        \* t1, the thread A as created
    is_t2,        \* t2, the thread B as created
    is_msgs1,     \* msgs1, the last listing of thread A
    is_msgs2,     \* msgs2, the last listing of thread B
    is_log,       \* the requests issued: [op, tid], in order
    is_cause,     \* what the server did with the last request
    is_out,       \* what the Results block printed
    is_exc,       \* the exception that ended the script
    \* one run of test_adk.py
    ad_pc,        \* the call the script is about to make, or "summary",
                  \* "done", "aborted", "blocked" (in a call that does not
                  \* return)
    ad_ran,       \* the checks started, in order
    ad_results,   \* the results dict: <<name, passed>> in insertion order
    ad_events,    \* test_run: what make_request returned for /run
    ad_session,   \* test_sessions: session_id
    ad_seen,      \* test_sessions: <<status, listed count>> of create, list,
                  \* get and delete, as far as the test got
    ad_log,       \* the requests issued, in order
    ad_out,       \* what the summary printed
    ad_exc,       \* the exception that ended the script
    \* one call of test_sse_streaming (test_agent.py)
    ss_pc,        \* "open", "reading", "done"
    ss_rest,      \* the part of the event stream not yet read
    ss_stream,    \* the whole stream, as the server sends it
    ss_st,        \* the locals: buffer, chunk_count, final_text, and what
                  \* the loop has processed so far (see SseStart)
    ss_ret,       \* the value returned: "none" until then, "pass", "fail";
                  \* "raised" when an exception left the test
    \* one call of test_parallel_fanout (test_complex_agents.py)
    fo_pc,        \* the main thread: "submit", "collect" (the as_completed
                  \* loop), "unwind" (an exception is leaving the with
                  \* block), "gather", "done", "raised"
    fo_next,      \* the index in sessions of the next submit
    fo_fut,       \* the futures, by index in sessions (see NewFuture)
    fo_yielded,   \* the futures as_completed has yielded
    fo_inflight,  \* the requests sent and not yet answered
    fo_results,   \* results: [role, response], in the order appended
    fo_ret,       \* the value returned: "none" until then, "pass", "fail"
    fo_exc,       \* the exception that left the test
    \* one call of test_session_api (test_sessions.py)
    sa_pc,        \* the call the test is about to make, or "done", "raised",
                  \* "blocked" (in a call that does not return)
    sa_counts,    \* the counts printed for the listings so far: before,
                  \* after the creates, after the deletes
    sa_tries,     \* the rounds of the create loop done
    sa_created,   \* created_ids
    sa_deleted,   \* the DELETE requests that were sent and have ended
    sa_ret,       \* the value returned: "none" until then, "pass", "fail"
    sa_exc,       \* the exception that left the test
    \* one call of test_multi_turn (test_agent.py)
    mt_pc,        \* "turn" while run_conversation loops, "summary", "done"
    mt_sent,      \* the requests sent: [session, message], in order
    mt_responses, \* responses
    mt_ret,       \* the value returned: "none" until then, "pass", "fail"
    \* one call of test_loop_agent (test_complex_agents.py)
    lp_pc,        \* the call the test is about to make: "generate",
                  \* "evaluate", "refine"; then "final", "done", "raised"
    lp_i,         \* i of 'for i in range(max_iterations)'
    lp_draft,     \* current_draft
    lp_score,     \* final_score
    lp_calls,     \* the run_turn calls made: [op, session, error], error
                  \* telling whether it returned an 'ERROR: ...' string
    lp_response,  \* score_response of the last evaluation
    lp_iterations, \* len(iterations)
    lp_total,     \* the 'Total iterations' figure printed, 0 until then
    lp_ret,       \* the value returned: "none" until then, "pass", "fail"
    lp_exc,       \* the exception that left the test
    \* one call of test_sequential_pipeline (test_complex_agents.py)
    pl_pc,        \* "send" before the request of the next stage, "wait"
                  \* while run_turn awaits its response, "validate", "done",
                  \* "raised"
    pl_sent,      \* the requests sent: [session, prompt], in order
    pl_results,   \* stage1_result, stage2_result, stage3_result, as far as
                  \* assigned
    pl_ret,       \* the value returned: "none" until then, "pass", "fail"
    pl_exc,        \* the exception that left the test
    \* the test_complex_agents.py script (its __main__ block)
    cm_pc,        \* "health", then the key of the pattern test to run next,
                  \* "summary", "ended" after the last statement, "exited"
    cm_health,    \* what make_request("/health") did: [kind, status], kind
                  \* "none" before the call
    cm_ran,       \* the pattern tests called, in order: [key, outcome],
                  \* outcome "True", "False" or "raised"
    cm_results,   \* results, as the sequence of its [key, value] entries
    cm_counts,    \* <<passed_count, total_count>> as printed
    cm_said,      \* the closing line printed: "none", "all" (all patterns
                  \* working), "some" (some need attention)
    cm_exit,       \* the exit code of the process, -1 while it runs
    \* one call of run_turn (test_complex_agents.py, test_sessions.py)
    rt_srv,       \* what the server does with the POST /run request
    rt_made,      \* what make_request did: returned (status, events) or
                  \* raised
    rt_ret,       \* what run_turn of test_complex_agents.py did: "none"
                  \* before the call, then [ok, val, exc]
    rt_ret_s,      \* the same for run_turn of test_sessions.py
    \* the session ids the test flows draw (test_sessions.py, test_complex_agents.py)
    id_isolation, \* <<session_a, session_b>> of test_session_isolation, <<>>
                  \* before they are drawn
    id_multi,     \* the session_id of each round of the first loop of
                  \* test_multiple_sessions, <<>> before
    id_fan        \* the id of each entry of sessions in
                  \* test_parallel_fanout, <<>> before

mrVars == <<mr_pc, mr_data, mr_method, mr_srv, mr_sent, mr_inflight, mr_ret>>
asVars ==
    <<as_pc, as_up, as_results, as_thread, as_created, as_run, as_turn,
      as_log, as_out, as_exc>>

isVars ==
    <<is_pc, is_k, is_t1, is_t2, is_msgs1, is_msgs2, is_log, is_cause, is_out,
      is_exc>>

adVars ==
    <<ad_pc, ad_ran, ad_results, ad_events, ad_session, ad_seen, ad_log,
      ad_out, ad_exc>>

ssVars == <<ss_pc, ss_rest, ss_stream, ss_st, ss_ret>>

foVars ==
    <<fo_pc, fo_next, fo_fut, fo_yielded, fo_inflight, fo_results, fo_ret,
      fo_exc>>

saVars ==
    <<sa_pc, sa_counts, sa_tries, sa_created, sa_deleted, sa_ret, sa_exc>>

mtVars == <<mt_pc, mt_sent, mt_responses, mt_ret>>

lpVars ==
    <<lp_pc, lp_i, lp_draft, lp_score, lp_calls, lp_response, lp_iterations,
      lp_total, lp_ret, lp_exc>>

plVars == <<pl_pc, pl_sent, pl_results, pl_ret, pl_exc>>

cmVars ==
    <<cm_pc, cm_health, cm_ran, cm_results, cm_counts, cm_said, cm_exit>>

rtVars == <<rt_srv, rt_made, rt_ret, rt_ret_s>>

idVars == <<id_isolation, id_multi, id_fan>>

vars ==
    <<mrVars, asVars, isVars, adVars, ssVars, foVars, saVars, mtVars,
      lpVars, plVars, cmVars, rtVars, idVars>>

\* what the actions of one part leave alone
mrOthers ==
    <<asVars, isVars, adVars, ssVars, foVars, saVars, mtVars, lpVars,
      plVars, cmVars, rtVars, idVars>>
asOthers ==
    <<mrVars, isVars, adVars, ssVars, foVars, saVars, mtVars, lpVars,
      plVars, cmVars, rtVars, idVars>>
isOthers ==
    <<mrVars, asVars, adVars, ssVars, foVars, saVars, mtVars, lpVars,
      plVars, cmVars, rtVars, idVars>>
adOthers ==
    <<mrVars, asVars, isVars, ssVars, foVars, saVars, mtVars, lpVars,
      plVars, cmVars, rtVars, idVars>>
ssOthers ==
    <<mrVars, asVars, isVars, adVars, foVars, saVars, mtVars, lpVars,
      plVars, cmVars, rtVars, idVars>>
foOthers ==
    <<mrVars, asVars, isVars, adVars, ssVars, saVars, mtVars, lpVars,
      plVars, cmVars, rtVars, idVars>>
saOthers ==
    <<mrVars, asVars, isVars, adVars, ssVars, foVars, mtVars, lpVars,
      plVars, cmVars, rtVars, idVars>>
mtOthers ==
    <<mrVars, asVars, isVars, adVars, ssVars, foVars, saVars, lpVars,
      plVars, cmVars, rtVars, idVars>>
lpOthers ==
    <<mrVars, asVars, isVars, adVars, ssVars, foVars, saVars, mtVars,
      plVars, cmVars, rtVars, idVars>>
plOthers ==
    <<mrVars, asVars, isVars, adVars, ssVars, foVars, saVars, mtVars,
      lpVars, cmVars, rtVars, idVars>>
cmOthers ==
    <<mrVars, asVars, isVars, adVars, ssVars, foVars, saVars, mtVars,
      lpVars, plVars, rtVars, idVars>>
rtOthers ==
    <<mrVars, asVars, isVars, adVars, ssVars, foVars, saVars, mtVars,
      lpVars, plVars, cmVars, idVars>>
idOthers ==
    <<mrVars, asVars, isVars, adVars, ssVars, foVars, saVars, mtVars,
      lpVars, plVars, cmVars, rtVars>>

-----------------------------------------------------------------------------
(* Bounds *)

\* longest body text drawn exhaustively over BodyAtoms
MaxBodyLen == 3

\* most blocks in an event stream
MaxBlocks == 2

-----------------------------------------------------------------------------
(* Program constants *)

\* len(conversations) in test_multiturn
Conversations == 3

\* resp.read(256) in test_sse_streaming
ReadSize == 256

\* ThreadPoolExecutor(max_workers=3) in test_parallel_fanout
max_workers == 3

-----------------------------------------------------------------------------
(* Python / JSON values.  One record shape for every value, so that any    *)
(* two values can be compared.                                             *)

PyVal(t, n, s, items, fields) ==
    [t |-> t, n |-> n, s |-> s, items |-> items, fields |-> fields]

PyNone == PyVal("none", 0, <<>>, <<>>, <<>>)
PyInt(n) == PyVal("int", n, <<>>, <<>>, <<>>)
\* a str; s is its text, a sequence of atoms
PyStr(s) == PyVal("str", 0, s, <<>>, <<>>)
PyList(items) == PyVal("list", 0, <<>>, items, <<>>)
\* a dict; fields is the sequence of <<key, value>> pairs in insertion order
PyDict(fields) == PyVal("dict", 0, <<>>, <<>>, fields)

EmptyDict == PyDict(<<>>)

\* bool(v)
Truthy(v) ==
    CASE v.t = "none" -> FALSE
      [] v.t = "int" -> v.n # 0
      [] v.t = "str" -> v.s # <<>>
      [] v.t = "list" -> v.items # <<>>
      [] v.t = "dict" -> v.fields # <<>>
      [] OTHER -> TRUE

-----------------------------------------------------------------------------
(* json.loads over atoms *)

Ws == {" ", "\n"}
Digit == {"1"}
\* the string literals that occur in the modelled bodies: Lits[i] is the
\* literal as written in a body, Names[i] the str it denotes
Names ==
    <<"id", "a", "error", "data", "content", "text", "value", "status",
      "completed", "parts", "300", "green", "GREEN", "300 green",
      "4", "a long answer", "0", "score 8">>
Lits ==
    <<"\"id\"", "\"a\"", "\"error\"", "\"data\"", "\"content\"", "\"text\"",
      "\"value\"", "\"status\"", "\"completed\"", "\"parts\"", "\"300\"",
      "\"green\"", "\"GREEN\"", "\"300 green\"", "\"4\"",
      "\"a long answer\"", "\"0\"", "\"score 8\"">>
StrLit == {Lits[i] : i \in 1..Len(Lits)}
StrOf(tok) == Names[CHOOSE i \in 1..Len(Lits) : Lits[i] = tok]
LitOf(str) == Lits[CHOOSE i \in 1..Len(Names) : Names[i] = str]

RECURSIVE SkipWs(_)
SkipWs(t) == IF t # <<>> /\ Head(t) \in Ws THEN SkipWs(Tail(t)) ELSE t

RECURSIVE NumEnd(_, _)
\* the number that starts the text, as <<value, rest>>
NumEnd(t, acc) ==
    IF t # <<>> /\ Head(t) \in Digit
    THEN NumEnd(Tail(t), 10 * acc + 1)
    ELSE <<acc, t>>

ParseFail == [ok |-> FALSE, val |-> PyNone, rest |-> <<>>]
ParseOk(v, rest) == [ok |-> TRUE, val |-> v, rest |-> rest]

\* dict assignment d[k] = v: a repeated key keeps its place and takes the new value
RECURSIVE HasKey(_, _)
HasKey(fields, k) ==
    IF fields = <<>> THEN FALSE
    ELSE IF Head(fields)[1] = k THEN TRUE ELSE HasKey(Tail(fields), k)

SetKey(fields, k, v) ==
    IF HasKey(fields, k)
    THEN [i \in 1..Len(fields) |->
            IF fields[i][1] = k THEN <<k, v>> ELSE fields[i]]
    ELSE Append(fields, <<k, v>>)

\* the one element of a singleton set; Only({e(x) : x \in {v}}) is e(v) with
\* v evaluated once
Only(S) == CHOOSE x \in S : TRUE

RECURSIVE ParseValue(_), ParseElems(_, _), ElemsAfter(_, _),
          ParseMembers(_, _), MembersAfter(_, _, _)
ParseValue(t) ==
    Only({ IF s = <<>> THEN ParseFail
           ELSE IF Head(s) \in Digit THEN
               Only({ParseOk(PyInt(ne[1]), ne[2]) : ne \in {NumEnd(s, 0)}})
           ELSE IF Head(s) \in StrLit THEN
               ParseOk(PyStr(<<StrOf(Head(s))>>), Tail(s))
           ELSE IF Head(s) = "[" THEN
               Only({ IF r # <<>> /\ Head(r) = "]"
                      THEN ParseOk(PyList(<<>>), Tail(r))
                      ELSE ParseElems(r, <<>>) : r \in {SkipWs(Tail(s))} })
           ELSE IF Head(s) = "{" THEN
               Only({ IF r # <<>> /\ Head(r) = "}"
                      THEN ParseOk(EmptyDict, Tail(r))
                      ELSE ParseMembers(r, <<>>) : r \in {SkipWs(Tail(s))} })
           ELSE ParseFail : s \in {SkipWs(t)} })

\* the elements of a list from t on, acc those already parsed
ParseElems(t, acc) ==
    Only({ElemsAfter(v, a) : v \in {ParseValue(t)}, a \in {acc}})

\* what follows the element v of a list
ElemsAfter(v, acc) ==
    IF ~v.ok THEN ParseFail
    ELSE Only({ IF r = <<>> THEN ParseFail
                ELSE IF Head(r) = ","
                     THEN ParseElems(Tail(r), Append(acc, v.val))
                ELSE IF Head(r) = "]"
                     THEN ParseOk(PyList(Append(acc, v.val)), Tail(r))
                ELSE ParseFail : r \in {SkipWs(v.rest)} })

\* the members of an object from t on, acc those already parsed
ParseMembers(t, acc) ==
    Only({ IF s = <<>> \/ Head(s) \notin StrLit THEN ParseFail
           ELSE Only({ IF c = <<>> \/ Head(c) # ":" THEN ParseFail
                       ELSE Only({MembersAfter(StrOf(Head(s)), v, a) :
                                    v \in {ParseValue(Tail(c))}, a \in {acc}})
                       : c \in {SkipWs(Tail(s))} })
           : s \in {SkipWs(t)} })

\* what follows the member k: v of an object
MembersAfter(k, v, acc) ==
    IF ~v.ok THEN ParseFail
    ELSE Only({ IF r = <<>> THEN ParseFail
                ELSE IF Head(r) = ","
                     THEN ParseMembers(Tail(r), SetKey(acc, k, v.val))
                ELSE IF Head(r) = "}"
                     THEN ParseOk(PyDict(SetKey(acc, k, v.val)), Tail(r))
                ELSE ParseFail : r \in {SkipWs(v.rest)} })

\* json.loads(text): [ok, val]; ok = FALSE stands for JSONDecodeError
JsonLoads(text) ==
    Only({ IF r.ok /\ SkipWs(r.rest) = <<>>
           THEN [ok |-> TRUE, val |-> r.val]
           ELSE [ok |-> FALSE, val |-> PyNone] : r \in {ParseValue(text)} })

-----------------------------------------------------------------------------
(* json.dumps with the default separators ", " and ": " *)

RECURSIVE DumpInt(_)
DumpInt(n) == IF n < 10 THEN <<"1">> ELSE DumpInt(n \div 10) \o <<"1">>

RECURSIVE JsonDumps(_), DumpElems(_), DumpMembers(_)
JsonDumps(v) ==
    CASE v.t = "int" -> DumpInt(v.n)
      [] v.t = "str" -> <<LitOf(v.s[1])>>
      [] v.t = "list" -> <<"[">> \o DumpElems(v.items) \o <<"]">>
      [] v.t = "dict" -> <<"{">> \o DumpMembers(v.fields) \o <<"}">>
      [] OTHER -> <<"null">>

DumpElems(items) ==
    IF items = <<>> THEN <<>>
    ELSE IF Len(items) = 1 THEN JsonDumps(items[1])
    ELSE JsonDumps(items[1]) \o <<",", " ">> \o DumpElems(Tail(items))

DumpMembers(fields) ==
    IF fields = <<>> THEN <<>>
    ELSE LET m == <<LitOf(fields[1][1]), ":", " ">> \o JsonDumps(fields[1][2]) IN
         IF Len(fields) = 1 THEN m
         ELSE m \o <<",", " ">> \o DumpMembers(Tail(fields))

-----------------------------------------------------------------------------
(* The server's answer to one request, and make_request *)

\* fail = "connect": urlopen raises before a status line arrives (connection
\*                   refused, DNS failure, timeout);
\* fail = "body":    the status line arrived and reading the body raises
\*                   (timeout, connection closed early);
\* fail = "none":    the response completes with status and body.
FailPhases == {"none", "connect", "body"}
Statuses == {200, 201, 404, 500}

\* urllib raises HTTPError for a status outside 200..299
Is2xx(status) == status >= 200 /\ status < 300

Returned(status, body) ==
    [kind |-> "return", status |-> status, body |-> body, exc |-> "none"]
Raised(exc) ==
    [kind |-> "raise", status |-> -1, body |-> PyNone, exc |-> exc]
NoResult ==
    [kind |-> "none", status |-> -1, body |-> PyNone, exc |-> "none"]

\* {"error": str(e)}
ErrDict(exc) == PyDict(<< <<"error", PyStr(<<exc>>)>> >>)

DecodeBodyAlways(body) == JsonLoads(body)
\* json.loads(body) if body else {}
DecodeBody(body) ==
    IF body # <<>> THEN JsonLoads(body) ELSE [ok |-> TRUE, val |-> EmptyDict]

\* except Exception as e: return 0, {"error": str(e)}
OnException(exc) == Returned(0, ErrDict(exc))

\* the body of the with block; what it raises is caught by except Exception
WithResponse(srv) ==
    IF srv.fail = "body" THEN OnException("IncompleteRead")
    ELSE Only({ IF j.ok THEN Returned(srv.status, j.val)
                ELSE OnException("JSONDecodeError")
                : j \in {DecodeBody(srv.body)} })

\* the except HTTPError handler; what it raises leaves make_request
OnHTTPError(srv) ==
    IF srv.fail = "body" THEN Raised("IncompleteRead")
    ELSE Only({ IF j.ok THEN Returned(srv.status, j.val)
                ELSE Raised("JSONDecodeError")
                : j \in {DecodeBody(srv.body)} })

\* the try statement of make_request, given what the server does
make_request(srv) ==
    IF srv.fail = "connect" THEN OnException("URLError")
    ELSE IF Is2xx(srv.status) THEN WithResponse(srv)
    ELSE OnHTTPError(srv)

\* a body for every data but None
ReqDataNotNone(data) ==
    IF data # PyNone
    THEN [hasBody |-> TRUE, body |-> JsonDumps(data)]
    ELSE [hasBody |-> FALSE, body |-> <<>>]

\* req_data = json.dumps(data).encode('utf-8') if data else None
ReqData(data) ==
    IF Truthy(data)
    THEN [hasBody |-> TRUE, body |-> JsonDumps(data)]
    ELSE [hasBody |-> FALSE, body |-> <<>>]

-----------------------------------------------------------------------------
(* Inputs of one make_request call *)

BodyAtoms == {"{", "}", "[", "]", "1", "x"}

RECURSIVE TextsUpTo(_)
TextsUpTo(n) ==
    IF n = 0 THEN {<<>>}
    ELSE LET shorter == TextsUpTo(n - 1) IN
         shorter \cup {Append(t, a) : t \in {u \in shorter : Len(u) = n - 1},
                                      a \in BodyAtoms}

\* values a server sends, serialized with json.dumps
SampleValues ==
    { EmptyDict,
      PyList(<<>>),
      PyInt(11),
      PyDict(<< <<"id", PyStr(<<"a">>)>> >>),
      PyDict(<< <<"id", PyInt(1)>>, <<"a", PyList(<<PyInt(1), EmptyDict>>)>> >>),
      PyList(<<PyDict(<< <<"error", PyStr(<<"a">>)>> >>)>>) }

\* bodies that are not JSON
SampleGarbage ==
    { <<"x", " ", "x">>, <<"{", "\"id\"", "}">>, <<"[", "1", ",", "]">>,
      <<"{", "\"id\"", ":", "1", "}", "x">>, <<" ">> }

Bodies ==
    TextsUpTo(MaxBodyLen) \cup {JsonDumps(v) : v \in SampleValues}
        \cup SampleGarbage

\* the server is unreachable: no status, no body
Unreachable == [fail |-> "connect", status |-> 200, body |-> <<>>]

\* what the server may do with one request, its bodies drawn from bodies;
\* status and body play no part when the connection fails, nor does the body
\* when reading it fails
AnswersOver(bodies) ==
    {Unreachable}
        \cup [fail : {"body"}, status : Statuses, body : {<<>>}]
        \cup [fail : {"none"}, status : Statuses, body : bodies]

ServerAnswers == AnswersOver(Bodies)

\* the (method, data) pairs of the call sites
Requests ==
    { <<"GET", PyNone>>, <<"DELETE", PyNone>>, <<"POST", EmptyDict>>,
      <<"POST", PyDict(<< <<"id", PyStr(<<"a">>)>> >>)>> }

MRInit ==
    /\ mr_pc = "start"
    /\ \E r \in Requests : mr_method = r[1] /\ mr_data = r[2]
    /\ mr_srv \in ServerAnswers
    /\ mr_sent = <<>>
    /\ mr_inflight = 0
    /\ mr_ret = NoResult

\* urllib.request.Request(...) and the call of urlopen
MR_Send ==
    /\ mr_pc = "start"
    /\ mr_sent' = Append(mr_sent, [method |-> mr_method, data |-> ReqData(mr_data)])
    /\ mr_inflight' = mr_inflight + 1
    /\ mr_pc' = "waiting"
    /\ UNCHANGED <<mr_data, mr_method, mr_srv, mr_ret, mrOthers>>

\* a make_request that sends the request again after a transport failure
MR_FinishRetry ==
    /\ mr_pc = "waiting"
    /\ \E o \in {make_request(mr_srv)} :
       IF o.kind = "return" /\ o.status = 0 /\ Len(mr_sent) < 2
       THEN /\ mr_sent' = Append(mr_sent, mr_sent[1])
            /\ UNCHANGED <<mr_pc, mr_ret, mr_inflight>>
       ELSE /\ mr_ret' = o
            /\ mr_inflight' = mr_inflight - 1
            /\ mr_pc' = IF o.kind = "raise" THEN "raised" ELSE "returned"
            /\ UNCHANGED mr_sent
    /\ UNCHANGED <<mr_data, mr_method, mr_srv, mrOthers>>

\* urlopen comes back (response or exception) and the try statement runs
MR_Finish ==
    /\ mr_pc = "waiting"
    /\ \E o \in {make_request(mr_srv)} :
       /\ mr_ret' = o
       /\ mr_pc' = IF o.kind = "raise" THEN "raised" ELSE "returned"
    /\ mr_inflight' = mr_inflight - 1
    /\ UNCHANGED <<mr_data, mr_method, mr_srv, mr_sent, mrOthers>>

MRNext == MR_Send \/ MR_Finish

\* no make_request call is being followed step by step
MRIdle ==
    /\ mr_pc = "idle" /\ mr_method = "GET" /\ mr_data = PyNone
    /\ mr_srv = [fail |-> "none", status |-> 200, body |-> <<>>]
    /\ mr_sent = <<>> /\ mr_inflight = 0 /\ mr_ret = NoResult

-----------------------------------------------------------------------------
(* Claims about make_request, checked under SpecReq *)

MRDone == mr_pc \in {"returned", "raised"}

\* C1: a response that completes with a status code (2xx, or non-2xx delivered
\* as HTTPError) and whose body is valid JSON or empty makes make_request
\* return (status code, decoded body), the body being {} when it is empty;
\* the decoded body of a serialized value is that value.
C1_StatusAndDecodedBody ==
    (MRDone /\ mr_srv.fail = "none"
        /\ (mr_srv.body = <<>> \/ JsonLoads(mr_srv.body).ok))
    => /\ mr_ret.kind = "return"
       /\ mr_ret.status = mr_srv.status
       /\ mr_srv.body = <<>> => mr_ret.body = EmptyDict
       /\ mr_srv.body # <<>> => mr_ret.body = JsonLoads(mr_srv.body).val
       /\ \A v \in SampleValues :
            mr_srv.body = JsonDumps(v) => mr_ret.body = v

\* an error status with a JSON object as body has been returned decoded
C1_Witness ==
    /\ MRDone /\ mr_srv.fail = "none" /\ mr_srv.status = 404
    /\ mr_srv.body = <<"{", "\"id\"", ":", " ", "\"a\"", "}">>
    /\ mr_ret = Returned(404, PyDict(<< <<"id", PyStr(<<"a">>)>> >>))

\* C2: on any transport-level failure make_request does not raise; it returns
\* status 0 with a mapping that carries the error description under 'error'.
C2_TransportFailureIsStatusZero ==
    (MRDone /\ mr_srv.fail # "none")
    => /\ mr_ret.kind = "return"
       /\ mr_ret.status = 0
       /\ mr_ret.body.t = "dict"
       /\ HasKey(mr_ret.body.fields, "error")

\* C3: a non-empty body that is not valid JSON is surfaced as raw text with
\* the real status code; make_request neither raises nor replaces the body.
C3_RawTextSurfaced ==
    (MRDone /\ mr_srv.fail = "none" /\ mr_srv.body # <<>>
        /\ ~JsonLoads(mr_srv.body).ok)
    => /\ mr_ret.kind = "return"
       /\ mr_ret.status = mr_srv.status
       /\ mr_ret.body = PyStr(mr_srv.body)

-----------------------------------------------------------------------------
(* Python operations the scripts apply to what make_request returned.      *)
(* Each yields [ok, val, exc]; ok = FALSE stands for the exception exc.    *)

PyOk(v) == [ok |-> TRUE, val |-> v, exc |-> "none"]
PyErr(exc) == [ok |-> FALSE, val |-> PyNone, exc |-> exc]

RECURSIVE Lookup(_, _)
Lookup(fields, k) ==
    IF Head(fields)[1] = k THEN Head(fields)[2] ELSE Lookup(Tail(fields), k)

\* v.get(k, d)
DictGet(v, k, d) ==
    IF v.t # "dict" THEN PyErr("AttributeError")
    ELSE IF HasKey(v.fields, k) THEN PyOk(Lookup(v.fields, k))
    ELSE PyOk(d)

\* v[k] for a str key k
ItemKey(v, k) ==
    IF v.t = "dict"
    THEN IF HasKey(v.fields, k) THEN PyOk(Lookup(v.fields, k))
         ELSE PyErr("KeyError")
    ELSE PyErr("TypeError")

\* v[0] (last = FALSE) and v[-1] (last = TRUE)
ItemIndex(v, last) ==
    CASE v.t = "list" ->
            IF v.items = <<>> THEN PyErr("IndexError")
            ELSE PyOk(IF last THEN v.items[Len(v.items)] ELSE v.items[1])
      [] v.t = "str" ->
            IF v.s = <<>> THEN PyErr("IndexError")
            ELSE PyOk(PyStr(<<IF last THEN v.s[Len(v.s)] ELSE v.s[1]>>))
      [] v.t = "dict" -> PyErr("KeyError")
      [] OTHER -> PyErr("TypeError")

\* one subscript: a str key, or the index 0 or -1
Key(k) == [key |-> k, last |-> FALSE]
First == [key |-> "", last |-> FALSE]
Last == [key |-> "", last |-> TRUE]
Item(v, step) ==
    IF step.key # "" THEN ItemKey(v, step.key) ELSE ItemIndex(v, step.last)

\* v[s1][s2]...[sn]
RECURSIVE Path(_, _)
Path(v, steps) ==
    IF steps = <<>> THEN PyOk(v)
    ELSE LET r == Item(v, Head(steps)) IN
         IF r.ok THEN Path(r.val, Tail(steps)) ELSE r

\* len(v)
PyLen(v) ==
    CASE v.t = "list" -> PyOk(PyInt(Len(v.items)))
      [] v.t = "dict" -> PyOk(PyInt(Len(v.fields)))
      [] v.t = "str" -> PyOk(PyInt(Len(v.s)))
      [] OTHER -> PyErr("TypeError")

\* v[:n]: only whether it raises matters to the scripts
PySlice(v) ==
    IF v.t \in {"str", "list"} THEN PyOk(v) ELSE PyErr("TypeError")

\* len(v.get(k, []))
LenOfGet(v, k) ==
    LET g == DictGet(v, k, PyList(<<>>)) IN
    IF g.ok THEN PyLen(g.val) ELSE g

-----------------------------------------------------------------------------
(* test_assistants.py: the script, one action per make_request call and    *)
(* the statements that follow it up to the next call                       *)

\* a message as the Assistants API lists it
MessageWith(text) ==
    PyDict(<< <<"content",
                PyList(<<PyDict(<< <<"text",
                    PyDict(<< <<"value", PyStr(<<text>>)>> >>)>> >>)>>)>> >>)
Message == MessageWith("a")

AssistValues ==
    { EmptyDict,
      PyList(<<>>),
      PyDict(<< <<"id", PyStr(<<"a">>)>> >>),
      PyDict(<< <<"id", PyStr(<<"a">>)>>, <<"status", PyStr(<<"completed">>)>> >>),
      PyDict(<< <<"id", PyStr(<<"a">>)>>, <<"status", PyStr(<<"error">>)>> >>),
      PyDict(<< <<"data", PyList(<<>>)>> >>),
      PyDict(<< <<"data", PyList(<<Message>>)>> >>),
      PyDict(<< <<"data", PyList(<<Message, Message>>)>> >>),
      PyDict(<< <<"data", PyList(<<EmptyDict, EmptyDict>>)>> >>),
      PyDict(<< <<"data", PyInt(1)>> >>),
      PyDict(<< <<"error", PyStr(<<"a">>)>> >>) }

AssistBodies ==
    {<<>>, <<"x">>} \cup {JsonDumps(v) : v \in AssistValues}

\* what the server may do with a call of the script
AssistAnswers(up) ==
    IF up THEN AnswersOver(AssistBodies) ELSE {Unreachable}

ASInit ==
    /\ as_pc = "assistants"
    /\ as_up \in BOOLEAN
    /\ as_results = <<>>
    /\ as_thread = PyNone
    /\ as_created = NoResult
    /\ as_run = PyNone
    /\ as_turn = 0
    /\ as_log = <<>>
    /\ as_out = <<>>
    /\ as_exc = "none"

\* an exception leaves the running test function and, uncaught, the script
AS_Abort(exc) ==
    /\ as_pc' = "aborted"
    /\ as_exc' = exc
    /\ UNCHANGED <<as_results, as_thread, as_run, as_turn, as_out>>

\* the test function returns passed; main stores it and goes on
AS_Return(name, passed, next) ==
    /\ as_results' = Append(as_results, <<name, passed>>)
    /\ as_pc' = next
    /\ UNCHANGED <<as_thread, as_run, as_turn, as_out, as_exc>>

AS_Goto(next) ==
    /\ as_pc' = next
    /\ UNCHANGED <<as_results, as_thread, as_run, as_turn, as_out, as_exc>>

AS_Log(op, tid) == as_log' = Append(as_log, [op |-> op, tid |-> tid])

\* test_assistants
AS_Assistants ==
    /\ as_pc = "assistants"
    /\ AS_Log("GET /v1/assistants", PyNone)
    /\ \E srv \in AssistAnswers(as_up) : \E o \in {make_request(srv)} :
        LET n == LenOfGet(o.body, "data") IN
        IF o.kind = "raise" THEN AS_Abort(o.exc)
        ELSE IF ~n.ok THEN AS_Abort(n.exc)
        ELSE AS_Return("assistants", o.status = 200, "tl_create")
    /\ UNCHANGED <<as_up, as_created, asOthers>>

\* test_thread_lifecycle: create thread
AS_TlCreate ==
    /\ as_pc = "tl_create"
    /\ AS_Log("POST /v1/threads", PyNone)
    /\ \E srv \in AssistAnswers(as_up) : \E o \in {make_request(srv)} :
        LET id == DictGet(o.body, "id", PyNone) IN
        /\ as_created' = o
        /\ IF o.kind = "raise" THEN AS_Abort(o.exc)
           ELSE IF o.status # 201
           THEN AS_Return("thread_lifecycle", FALSE, "mt_create")
           ELSE IF ~id.ok THEN AS_Abort(id.exc)
           ELSE /\ as_thread' = id.val
                /\ as_pc' = "tl_get"
                /\ UNCHANGED <<as_results, as_run, as_turn, as_out, as_exc>>
    /\ UNCHANGED <<as_up, asOthers>>

\* test_thread_lifecycle: get thread
AS_TlGet ==
    /\ as_pc = "tl_get"
    /\ AS_Log("GET /v1/threads/{id}", as_thread)
    /\ \E srv \in AssistAnswers(as_up) : \E o \in {make_request(srv)} :
        IF o.kind = "raise" THEN AS_Abort(o.exc) ELSE AS_Goto("tl_add")
    /\ UNCHANGED <<as_up, as_created, asOthers>>

\* test_thread_lifecycle: add message
AS_TlAdd ==
    /\ as_pc = "tl_add"
    /\ AS_Log("POST /v1/threads/{id}/messages", as_thread)
    /\ \E srv \in AssistAnswers(as_up) : \E o \in {make_request(srv)} :
        LET id == DictGet(o.body, "id", PyNone) IN
        IF o.kind = "raise" THEN AS_Abort(o.exc)
        ELSE IF ~id.ok THEN AS_Abort(id.exc)
        ELSE AS_Goto("tl_list")
    /\ UNCHANGED <<as_up, as_created, asOthers>>

\* test_thread_lifecycle: list messages
AS_TlList ==
    /\ as_pc = "tl_list"
    /\ AS_Log("GET /v1/threads/{id}/messages", as_thread)
    /\ \E srv \in AssistAnswers(as_up) : \E o \in {make_request(srv)} :
        LET n == LenOfGet(o.body, "data") IN
        IF o.kind = "raise" THEN AS_Abort(o.exc)
        ELSE IF ~n.ok THEN AS_Abort(n.exc)
        ELSE AS_Goto("tl_run")
    /\ UNCHANGED <<as_up, as_created, asOthers>>

\* test_thread_lifecycle: create run
AS_TlRun ==
    /\ as_pc = "tl_run"
    /\ AS_Log("POST /v1/threads/{id}/runs", as_thread)
    /\ \E srv \in AssistAnswers(as_up) : \E o \in {make_request(srv)} :
        LET id == DictGet(o.body, "id", PyNone) IN
        IF o.kind = "raise" THEN AS_Abort(o.exc)
        ELSE IF ~id.ok THEN AS_Abort(id.exc)
        ELSE /\ as_run' = o.body
             /\ as_pc' = "tl_list2"
             /\ UNCHANGED <<as_results, as_thread, as_turn, as_out, as_exc>>
    /\ UNCHANGED <<as_up, as_created, asOthers>>

\* msgs['data'][-1]['content'][0]['text']['value'], then a slice of it
LastMessageText(msgs) ==
    LET v == Path(msgs, <<Key("data"), Last, Key("content"), First,
                          Key("text"), Key("value")>>) IN
    IF v.ok THEN PySlice(v.val) ELSE v

\* test_thread_lifecycle: messages after the run
AS_TlList2 ==
    /\ as_pc = "tl_list2"
    /\ AS_Log("GET /v1/threads/{id}/messages", as_thread)
    /\ \E srv \in AssistAnswers(as_up) : \E o \in {make_request(srv)} :
        LET n == LenOfGet(o.body, "data")
            text == LastMessageText(o.body) IN
        IF o.kind = "raise" THEN AS_Abort(o.exc)
        ELSE IF ~n.ok THEN AS_Abort(n.exc)
        ELSE IF n.val.n >= 2 /\ ~text.ok THEN AS_Abort(text.exc)
        ELSE AS_Goto("tl_delete")
    /\ UNCHANGED <<as_up, as_created, asOthers>>

\* the return of test_thread_lifecycle without the DELETE request
AS_TlDeleteSkipped ==
    /\ as_pc = "tl_delete"
    /\ AS_Return("thread_lifecycle",
                 DictGet(as_run, "status", PyNone).val
                    = PyStr(<<"completed">>), "mt_create")
    /\ UNCHANGED <<as_up, as_created, as_log, asOthers>>

\* test_thread_lifecycle: delete thread and return
AS_TlDelete ==
    /\ as_pc = "tl_delete"
    /\ AS_Log("DELETE /v1/threads/{id}", as_thread)
    /\ \E srv \in AssistAnswers(as_up) : \E o \in {make_request(srv)} :
        LET st == DictGet(as_run, "status", PyNone) IN
        IF o.kind = "raise" THEN AS_Abort(o.exc)
        ELSE AS_Return("thread_lifecycle",
                       st.val = PyStr(<<"completed">>), "mt_create")
    /\ UNCHANGED <<as_up, as_created, asOthers>>

\* test_multiturn: create thread; thread_id = thread['id']
AS_MtCreate ==
    /\ as_pc = "mt_create"
    /\ AS_Log("POST /v1/threads", PyNone)
    /\ \E srv \in AssistAnswers(as_up) : \E o \in {make_request(srv)} :
        LET id == ItemKey(o.body, "id") IN
        IF o.kind = "raise" THEN AS_Abort(o.exc)
        ELSE IF ~id.ok THEN AS_Abort(id.exc)
        ELSE /\ as_thread' = id.val
             /\ as_turn' = 0
             /\ as_pc' = "mt_add"
             /\ UNCHANGED <<as_results, as_run, as_out, as_exc>>
    /\ UNCHANGED <<as_up, as_created, asOthers>>

\* test_multiturn: post the user message of the turn
AS_MtAdd ==
    /\ as_pc = "mt_add"
    /\ AS_Log("POST /v1/threads/{id}/messages", as_thread)
    /\ \E srv \in AssistAnswers(as_up) : \E o \in {make_request(srv)} :
        IF o.kind = "raise" THEN AS_Abort(o.exc) ELSE AS_Goto("mt_run")
    /\ UNCHANGED <<as_up, as_created, asOthers>>

\* test_multiturn: create the run of the turn
AS_MtRun ==
    /\ as_pc = "mt_run"
    /\ AS_Log("POST /v1/threads/{id}/runs", as_thread)
    /\ \E srv \in AssistAnswers(as_up) : \E o \in {make_request(srv)} :
        IF o.kind = "raise" THEN AS_Abort(o.exc) ELSE AS_Goto("mt_list")
    /\ UNCHANGED <<as_up, as_created, asOthers>>

\* test_multiturn: read the response of the turn
AS_MtList ==
    /\ as_pc = "mt_list"
    /\ AS_Log("GET /v1/threads/{id}/messages", as_thread)
    /\ \E srv \in AssistAnswers(as_up) : \E o \in {make_request(srv)} :
        LET text == LastMessageText(o.body) IN
        IF o.kind = "raise" THEN AS_Abort(o.exc)
        ELSE IF ~text.ok THEN AS_Abort(text.exc)
        ELSE /\ as_turn' = as_turn + 1
             /\ as_pc' = IF as_turn + 1 < Conversations THEN "mt_add"
                         ELSE "mt_delete"
             /\ UNCHANGED <<as_results, as_thread, as_run, as_out, as_exc>>
    /\ UNCHANGED <<as_up, as_created, asOthers>>

\* test_multiturn: cleanup and return True
AS_MtDelete ==
    /\ as_pc = "mt_delete"
    /\ AS_Log("DELETE /v1/threads/{id}", as_thread)
    /\ \E srv \in AssistAnswers(as_up) : \E o \in {make_request(srv)} :
        IF o.kind = "raise" THEN AS_Abort(o.exc)
        ELSE AS_Return("multiturn", TRUE, "summary")
    /\ UNCHANGED <<as_up, as_created, asOthers>>

\* all(results.values())
AllPassed(results) == \A i \in 1..Len(results) : results[i][2]

\* the RESULTS block of __main__
AS_Summary ==
    /\ as_pc = "summary"
    /\ as_out' = <<"RESULTS">>
                  \o [i \in 1..Len(as_results) |->
                        IF as_results[i][2] THEN "pass" ELSE "fail"]
                  \o <<IF AllPassed(as_results) THEN "All passed!"
                       ELSE "Some failed">>
    /\ as_pc' = "done"
    /\ UNCHANGED <<as_up, as_results, as_thread, as_created, as_run, as_turn,
                   as_log, as_exc, asOthers>>

ASNext ==
    \/ AS_Assistants \/ AS_TlCreate \/ AS_TlGet \/ AS_TlAdd \/ AS_TlList
    \/ AS_TlRun \/ AS_TlList2 \/ AS_TlDelete \/ AS_MtCreate \/ AS_MtAdd
    \/ AS_MtRun \/ AS_MtList \/ AS_MtDelete \/ AS_Summary

\* the script is not being run
ASIdle ==
    /\ as_pc = "idle" /\ as_up = TRUE /\ as_results = <<>>
    /\ as_thread = PyNone /\ as_created = NoResult /\ as_run = PyNone
    /\ as_turn = 0
    /\ as_log = <<>> /\ as_out = <<>> /\ as_exc = "none"

\* C5: when the server is unreachable, so that every call is a transport
\* failure reported as status 0, the script still runs its three checks to
\* completion and prints the RESULTS summary; no check aborts the script.
C5_UnreachableStillSummarises ==
    (~as_up /\ as_pc \in {"done", "aborted"})
    => /\ as_pc = "done"
       /\ Len(as_results) = 3
       /\ as_results[1][1] = "assistants"
       /\ as_results[2][1] = "thread_lifecycle"
       /\ as_results[3][1] = "multiturn"
       /\ Len(as_out) > 0 /\ as_out[1] = "RESULTS"

-----------------------------------------------------------------------------
(* test_thread_isolation.py *)

\* req: no try statement; every exception of urlopen, read and json.loads
\* leaves it
req(srv) ==
    IF srv.fail = "connect" THEN Raised("URLError")
    ELSE IF ~Is2xx(srv.status) THEN Raised("HTTPError")
    ELSE IF srv.fail = "body" THEN Raised("IncompleteRead")
    ELSE Only({ IF j.ok THEN Returned(srv.status, j.val)
                ELSE Raised("JSONDecodeError")
                : j \in {JsonLoads(srv.body)} })

\* the calls of the script in order: thread and operation
IsoPlan ==
    << [thr |-> "A", op |-> "create"], [thr |-> "A", op |-> "message"],
       [thr |-> "A", op |-> "run"],    [thr |-> "A", op |-> "list"],
       [thr |-> "B", op |-> "create"], [thr |-> "B", op |-> "message"],
       [thr |-> "B", op |-> "run"],    [thr |-> "B", op |-> "list"],
       [thr |-> "A", op |-> "message"], [thr |-> "A", op |-> "run"],
       [thr |-> "A", op |-> "list"],
       [thr |-> "B", op |-> "message"], [thr |-> "B", op |-> "run"],
       [thr |-> "B", op |-> "list"] >>

IsoValues ==
    { EmptyDict,
      PyDict(<< <<"id", PyStr(<<"a">>)>> >>),
      PyDict(<< <<"data", PyList(<<>>)>> >>),
      PyDict(<< <<"data", PyList(<<Message>>)>> >>),
      PyDict(<< <<"data", PyList(<<Message, MessageWith("300")>>)>> >>),
      PyDict(<< <<"data", PyList(<<Message, MessageWith("green")>>)>> >>),
      PyDict(<< <<"data", PyList(<<Message, MessageWith("GREEN")>>)>> >>),
      PyDict(<< <<"data", PyList(<<Message, MessageWith("300 green")>>)>> >>) }

IsoBodies == {<<>>, <<"x">>} \cup {JsonDumps(v) : v \in IsoValues}

IsoAnswers == AnswersOver(IsoBodies)

\* the kind of thing the server did
CauseOf(srv) ==
    IF srv.fail # "none" THEN "network failure"
    ELSE IF ~Is2xx(srv.status) THEN "non-2xx status"
    ELSE IF srv.body = <<>> THEN "empty body"
    ELSE "other"

ISInit ==
    /\ is_pc = "call" /\ is_k = 1
    /\ is_t1 = PyNone /\ is_t2 = PyNone
    /\ is_msgs1 = PyNone /\ is_msgs2 = PyNone
    /\ is_log = <<>> /\ is_cause = "none" /\ is_out = <<>> /\ is_exc = "none"

IS_Abort(exc) ==
    /\ is_pc' = "aborted"
    /\ is_exc' = exc
    /\ UNCHANGED <<is_k, is_t1, is_t2, is_msgs1, is_msgs2, is_out>>

\* on to the next call of the plan
IS_Advance ==
    /\ is_k' = is_k + 1
    /\ is_pc' = IF is_k < Len(IsoPlan) THEN "call" ELSE "verify"
    /\ UNCHANGED <<is_out, is_exc>>

IsoThread == IF IsoPlan[is_k].thr = "A" THEN is_t1 ELSE is_t2

\* t = req("/v1/threads", "POST", {}); print(t['id'][:25])
IS_Create ==
    /\ is_pc = "call" /\ IsoPlan[is_k].op = "create"
    /\ is_log' = Append(is_log, [op |-> "POST /v1/threads", tid |-> PyNone])
    /\ \E srv \in IsoAnswers : \E o \in {req(srv)} :
        LET id == ItemKey(o.body, "id")
            cut == IF id.ok THEN PySlice(id.val) ELSE id IN
        /\ is_cause' = CauseOf(srv)
        /\ IF o.kind = "raise" THEN IS_Abort(o.exc)
           ELSE IF ~cut.ok THEN IS_Abort(cut.exc)
           ELSE /\ IF IsoPlan[is_k].thr = "A"
                   THEN is_t1' = o.body /\ UNCHANGED is_t2
                   ELSE is_t2' = o.body /\ UNCHANGED is_t1
                /\ IS_Advance
                /\ UNCHANGED <<is_msgs1, is_msgs2>>
    /\ UNCHANGED isOthers

\* req(f"/v1/threads/{t['id']}/messages", "POST", ...) and
\* req(f"/v1/threads/{t['id']}/runs", "POST", ...): the result is dropped
IS_Post ==
    /\ is_pc = "call" /\ IsoPlan[is_k].op \in {"message", "run"}
    /\ is_log' = Append(is_log, [op |-> IsoPlan[is_k].op,
                                 tid |-> ItemKey(IsoThread, "id").val])
    /\ \E srv \in IsoAnswers : \E o \in {req(srv)} :
        /\ is_cause' = CauseOf(srv)
        /\ IF o.kind = "raise" THEN IS_Abort(o.exc)
           ELSE /\ IS_Advance
                /\ UNCHANGED <<is_t1, is_t2, is_msgs1, is_msgs2>>
    /\ UNCHANGED isOthers

\* msgs = req(f"/v1/threads/{t['id']}/messages"); print of the last text
IS_List ==
    /\ is_pc = "call" /\ IsoPlan[is_k].op = "list"
    /\ is_log' = Append(is_log, [op |-> "list",
                                 tid |-> ItemKey(IsoThread, "id").val])
    /\ \E srv \in IsoAnswers : \E o \in {req(srv)} :
        LET text == LastMessageText(o.body) IN
        /\ is_cause' = CauseOf(srv)
        /\ IF o.kind = "raise" THEN IS_Abort(o.exc)
           ELSE IF ~text.ok THEN IS_Abort(text.exc)
           ELSE /\ IF IsoPlan[is_k].thr = "A"
                   THEN is_msgs1' = o.body /\ UNCHANGED is_msgs2
                   ELSE is_msgs2' = o.body /\ UNCHANGED is_msgs1
                /\ IS_Advance
                /\ UNCHANGED <<is_t1, is_t2>>
    /\ UNCHANGED isOthers

\* str.lower() on the atoms of a text
LowerAtom(a) == IF a = "GREEN" THEN "green" ELSE a
PyLower(v) ==
    IF v.t = "str" THEN PyOk(PyStr([i \in 1..Len(v.s) |-> LowerAtom(v.s[i])]))
    ELSE PyErr("AttributeError")

\* the words looked for that occur in an atom of a text
WordsIn(a) ==
    CASE a = "300 green" -> {"300", "green"}
      [] a \in {"ERROR: ", "ERROR: status="} -> {"ERROR"}
      [] OTHER -> {a}

\* word in text
Contains(text, word) == \E i \in 1..Len(text.s) : word \in WordsIn(text.s[i])

\* the lowered text of the last message of a listing
LoweredLast(msgs) ==
    LET v == Path(msgs, <<Key("data"), Last, Key("content"), First,
                          Key("text"), Key("value")>>) IN
    IF v.ok THEN PyLower(v.val) ELSE v

\* Verify isolation, and the Results block
IS_Verify ==
    /\ is_pc = "verify"
    /\ LET a2 == LoweredLast(is_msgs1)
           b2 == LoweredLast(is_msgs2)
           a_ok == Contains(a2.val, "300") \/ Contains(a2.val, "three hundred")
           b_ok == Contains(b2.val, "green") IN
       IF ~a2.ok THEN IS_Abort(a2.exc)
       ELSE IF ~b2.ok THEN IS_Abort(b2.exc)
       ELSE /\ is_out' = <<"Results",
                           IF a_ok THEN "A ok" ELSE "A check",
                           IF b_ok THEN "B ok" ELSE "B check",
                           IF a_ok /\ b_ok THEN "Threads are isolated!"
                           ELSE "Check responses above">>
            /\ is_pc' = "done"
            /\ UNCHANGED <<is_k, is_t1, is_t2, is_msgs1, is_msgs2, is_exc>>
    /\ UNCHANGED <<is_log, is_cause, isOthers>>

ISNext == IS_Create \/ IS_Post \/ IS_List \/ IS_Verify

ISIdle ==
    /\ is_pc = "idle" /\ is_k = 0
    /\ is_t1 = PyNone /\ is_t2 = PyNone
    /\ is_msgs1 = PyNone /\ is_msgs2 = PyNone
    /\ is_log = <<>> /\ is_cause = "none" /\ is_out = <<>> /\ is_exc = "none"

\* C6: in the thread-isolation script a network failure, a non-2xx status or
\* an empty body on any call is a handled outcome of req: req returns to the
\* caller instead of raising, and the script goes on to its Results output.
C6_ReqHandlesFailures ==
    is_cause \in {"network failure", "non-2xx status", "empty body"}
    => is_exc = "none" /\ is_pc # "aborted"

\* C16: the script verifies isolation by asserting that the later turn in
\* thread B does not contain the fact introduced only in thread A (the 300 of
\* 'Double it'): whenever the B response contains it, the script does not
\* report the threads as isolated
C16_LeakNotReportedIsolated ==
    (is_pc = "done" /\ Contains(LoweredLast(is_msgs2).val, "300"))
        => is_out[4] # "Threads are isolated!"

-----------------------------------------------------------------------------
(* test_adk.py *)

\* an event of /run whose first part is part
EventWith(part) ==
    PyDict(<< <<"id", PyStr(<<"a">>)>>,
              <<"content", PyDict(<< <<"parts", PyList(<<part>>)>> >>)>> >>)
TextPart(text) == PyDict(<< <<"text", text>> >>)

AdkValues ==
    { EmptyDict,
      PyDict(<< <<"id", PyStr(<<"a">>)>> >>),
      PyList(<<>>),
      PyList(<<PyDict(<< <<"id", PyStr(<<"a">>)>> >>)>>),
      PyList(<<PyInt(1)>>),
      PyList(<<EventWith(TextPart(PyStr(<<"a">>)))>>),
      PyList(<<EventWith(TextPart(PyStr(<<"4">>)))>>),
      PyList(<<EventWith(TextPart(PyInt(1)))>>),
      PyList(<<EventWith(PyInt(1))>>),
      PyList(<<PyDict(<< <<"content", PyInt(1)>> >>)>>),
      PyList(<<PyDict(<< <<"content", PyDict(<< <<"parts", PyInt(1)>> >>)>> >>),
               EmptyDict>>) }

AdkBodies == {<<>>, <<"x">>} \cup {JsonDumps(v) : v \in AdkValues}

AdkAnswers == AnswersOver(AdkBodies)

ADInit ==
    /\ ad_pc = "health"
    /\ ad_ran = <<>> /\ ad_results = <<>> /\ ad_events = NoResult
    /\ ad_session = PyNone /\ ad_seen = <<>>
    /\ ad_log = <<>> /\ ad_out = <<>> /\ ad_exc = "none"

AD_Abort(exc) ==
    /\ ad_pc' = "aborted"
    /\ ad_exc' = exc
    /\ UNCHANGED <<ad_results, ad_session, ad_seen, ad_out>>

AD_Return(name, passed, next) ==
    /\ ad_results' = Append(ad_results, <<name, passed>>)
    /\ ad_pc' = next
    /\ UNCHANGED <<ad_session, ad_out, ad_exc>>

\* len(v) if isinstance(v, list) else 0
ListCount(v) == IF v.t = "list" THEN Len(v.items) ELSE 0

\* test_health
AD_Health ==
    /\ ad_pc = "health"
    /\ ad_ran' = Append(ad_ran, "health")
    /\ ad_log' = Append(ad_log, "GET /health")
    /\ \E srv \in AdkAnswers : \E o \in {make_request(srv)} :
        IF o.kind = "raise" THEN AD_Abort(o.exc)
        ELSE AD_Return("health", o.status = 200, "list_apps")
                /\ UNCHANGED ad_seen
    /\ UNCHANGED <<ad_events, adOthers>>

\* test_list_apps
AD_ListApps ==
    /\ ad_pc = "list_apps"
    /\ ad_ran' = Append(ad_ran, "list_apps")
    /\ ad_log' = Append(ad_log, "GET /list-apps")
    /\ \E srv \in AdkAnswers : \E o \in {make_request(srv)} :
        IF o.kind = "raise" THEN AD_Abort(o.exc)
        ELSE AD_Return("list_apps", o.status = 200 /\ o.body.t = "list", "run")
                /\ UNCHANGED ad_seen
    /\ UNCHANGED <<ad_events, adOthers>>

\* the prints of test_run on events[0]: [ok, val, exc]
ShowEvent(event) ==
    LET id == DictGet(event, "id", PyNone)
        content == DictGet(event, "content", EmptyDict)
        parts == IF content.ok
                 THEN DictGet(content.val, "parts", PyList(<<>>))
                 ELSE content
        part == IF parts.ok /\ Truthy(parts.val)
                THEN ItemIndex(parts.val, FALSE) ELSE parts
        text == IF part.ok /\ Truthy(parts.val)
                THEN DictGet(part.val, "text", PyStr(<<>>)) ELSE part
    IN  IF ~id.ok THEN id
        ELSE IF ~parts.ok THEN parts
        ELSE IF ~Truthy(parts.val) THEN parts
        ELSE IF ~text.ok THEN text
        ELSE PySlice(text.val)

\* test_run
AD_Run ==
    /\ ad_pc = "run"
    /\ ad_ran' = Append(ad_ran, "run")
    /\ ad_log' = Append(ad_log, "POST /run")
    /\ \E srv \in AdkAnswers : \E o \in {make_request(srv)} :
        /\ ad_events' = o
        /\ LET shown == ShowEvent(ItemIndex(o.body, FALSE).val) IN
           IF o.kind = "raise" THEN AD_Abort(o.exc)
           ELSE IF o.status = 200 /\ o.body.t = "list"
                   /\ Len(o.body.items) > 0
           THEN IF shown.ok
                THEN AD_Return("run", TRUE, "s_create") /\ UNCHANGED ad_seen
                ELSE AD_Abort(shown.exc)
           ELSE AD_Return("run", FALSE, "s_create") /\ UNCHANGED ad_seen
    /\ UNCHANGED adOthers

\* test_sessions: create session
AD_SessCreate ==
    /\ ad_pc = "s_create"
    /\ ad_ran' = Append(ad_ran, "sessions")
    /\ ad_log' = Append(ad_log, "POST sessions")
    /\ \E srv \in AdkAnswers : \E o \in {make_request(srv)} :
        LET id == DictGet(o.body, "id", PyNone) IN
        IF o.kind = "raise" THEN AD_Abort(o.exc)
        ELSE IF ~id.ok THEN AD_Abort(id.exc)
        ELSE IF o.status # 201
        THEN /\ AD_Return("sessions", FALSE, "summary")
             /\ ad_seen' = <<<<o.status, 0>>>>
        ELSE /\ ad_session' = id.val
             /\ ad_seen' = <<<<o.status, 0>>>>
             /\ ad_pc' = "s_list"
             /\ UNCHANGED <<ad_results, ad_out, ad_exc>>
    /\ UNCHANGED <<ad_events, adOthers>>

\* test_sessions: list sessions
AD_SessList ==
    /\ ad_pc = "s_list"
    /\ ad_log' = Append(ad_log, "GET sessions")
    /\ \E srv \in AdkAnswers : \E o \in {make_request(srv)} :
        IF o.kind = "raise" THEN AD_Abort(o.exc)
        ELSE /\ ad_seen' = Append(ad_seen, <<o.status, ListCount(o.body)>>)
             /\ ad_pc' = "s_get"
             /\ UNCHANGED <<ad_results, ad_session, ad_out, ad_exc>>
    /\ UNCHANGED <<ad_ran, ad_events, adOthers>>

\* test_sessions: get session
AD_SessGet ==
    /\ ad_pc = "s_get"
    /\ ad_log' = Append(ad_log, "GET session")
    /\ \E srv \in AdkAnswers : \E o \in {make_request(srv)} :
        IF o.kind = "raise" THEN AD_Abort(o.exc)
        ELSE /\ ad_seen' = Append(ad_seen, <<o.status, 0>>)
             /\ ad_pc' = "s_delete"
             /\ UNCHANGED <<ad_results, ad_session, ad_out, ad_exc>>
    /\ UNCHANGED <<ad_ran, ad_events, adOthers>>

\* a DELETE answered as the server is meant to: 204 No Content
NoContent == [fail |-> "none", status |-> 204, body |-> <<>>]
DeleteAnswers == AdkAnswers \cup {NoContent}

\* test_sessions: the DELETE, sent with urlopen(req) directly: only HTTPError
\* is caught, and with no timeout argument the socket has none, so the call
\* does not return while the server keeps the request unanswered
AD_SessDelete ==
    /\ ad_pc = "s_delete"
    /\ ad_log' = Append(ad_log, "DELETE session")
    /\ \/ \E srv \in DeleteAnswers :
            IF srv.fail = "connect" THEN AD_Abort("URLError")
            ELSE /\ ad_seen' = Append(ad_seen, <<srv.status, 0>>)
                 /\ IF Is2xx(srv.status)
                    THEN AD_Return("sessions", TRUE, "summary")
                    ELSE AD_Return("sessions", srv.status = 204, "summary")
       \/ /\ ad_pc' = "blocked"
          /\ UNCHANGED <<ad_results, ad_session, ad_seen, ad_out, ad_exc>>
    /\ UNCHANGED <<ad_ran, ad_events, adOthers>>

\* the RESULTS SUMMARY block of __main__
AD_Summary ==
    /\ ad_pc = "summary"
    /\ ad_out' = [i \in 1..Len(ad_results) |->
                    IF ad_results[i][2] THEN "PASS" ELSE "FAIL"]
                 \o <<IF AllPassed(ad_results) THEN "ALL TESTS PASSED"
                      ELSE "SOME TESTS FAILED">>
    /\ ad_pc' = "done"
    /\ UNCHANGED <<ad_ran, ad_results, ad_events, ad_session, ad_seen, ad_log,
                   ad_exc, adOthers>>

ADNext ==
    \/ AD_Health \/ AD_ListApps \/ AD_Run \/ AD_SessCreate \/ AD_SessList
    \/ AD_SessGet \/ AD_SessDelete \/ AD_Summary

ADIdle ==
    /\ ad_pc = "idle"
    /\ ad_ran = <<>> /\ ad_results = <<>> /\ ad_events = NoResult
    /\ ad_session = PyNone /\ ad_seen = <<>>
    /\ ad_log = <<>> /\ ad_out = <<>> /\ ad_exc = "none"

\* C7: for every behaviour of the server test_adk.py runs its four checks in
\* the order health, list_apps, run, sessions, then prints one pass/fail
\* marker per check and an aggregate line that says all tests passed exactly
\* when all four checks returned True.
C7_FourChecksThenSummary ==
    ad_pc \in {"done", "aborted"}
    => /\ ad_pc = "done"
       /\ ad_ran = <<"health", "list_apps", "run", "sessions">>
       /\ Len(ad_results) = 4
       /\ Len(ad_out) = 5
       /\ \A i \in 1..4 : ad_out[i] = "PASS" <=> ad_results[i][2]
       /\ ad_out[5] = "ALL TESTS PASSED"
            <=> \A i \in 1..4 : ad_results[i][2]

\* the result of the check name, given that it returned
ResultOf(name) ==
    \E i \in 1..Len(ad_results) :
        ad_results[i][1] = name /\ ad_results[i][2]

\* C14: test_sessions passes only if session creation returned 201, the
\* listing after creation shows one more session than before (so at least
\* one), the delete returned exactly 204, and a listing follows the delete
C14_SessionScenario ==
    ResultOf("sessions") =>
        /\ ad_seen[1][1] = 201
        /\ ad_seen[2][2] >= 1
        /\ ad_seen[4][1] = 204
        /\ Len(ad_seen) = 5

\* C17: test_run passes only if POST /run returned HTTP 200 with an event list
\* of exactly one element whose content.parts[0].text contains '4'
C17_OneEventWithFour ==
    ResultOf("run") =>
        /\ ad_events.status = 200
        /\ ad_events.body.t = "list"
        /\ Len(ad_events.body.items) = 1
        /\ Path(ad_events.body, <<First, Key("content"), Key("parts"), First,
                                  Key("text")>>).ok
        /\ Contains(Path(ad_events.body, <<First, Key("content"), Key("parts"),
                                           First, Key("text")>>).val, "4")

\* C19: every request of the script is bounded by a socket timeout: the
\* script is never inside a call that does not return
C19_EveryRequestTimesOut == ad_pc # "blocked"

-----------------------------------------------------------------------------
(* test_agent.py: test_sse_streaming *)

DataPrefix == <<"d", "a", "t", "a", ":", " ">>
DoneMarker == <<"[", "D", "O", "N", "E", "]">>
BlankLine == <<"\n", "\n">>

\* the blocks a stream is made of
DoneBlock == DataPrefix \o DoneMarker \o BlankLine
TextEventBlock ==
    DataPrefix
        \o <<"{", "\"content\"", ":", "{", "\"parts\"", ":", "[", "{",
             "\"text\"", ":", "\"a\"", "}", "]", "}", "}">>
        \o BlankLine
\* an event whose text is a number
NumberEventBlock ==
    DataPrefix
        \o <<"{", "\"content\"", ":", "{", "\"parts\"", ":", "[", "{",
             "\"text\"", ":", "1", "}", "]", "}", "}">>
        \o BlankLine
EmptyEventBlock == DataPrefix \o <<"{", "}">> \o BlankLine
BadEventBlock == DataPrefix \o <<"x">> \o BlankLine
CommentBlock == <<":", "\n", "\n">>
OpenBlock == DataPrefix \o <<"{", "}">>
Newline == <<"\n">>

Blocks ==
    { DoneBlock, TextEventBlock, NumberEventBlock, EmptyEventBlock,
      BadEventBlock, CommentBlock, OpenBlock, Newline }

RECURSIVE StreamsUpTo(_)
StreamsUpTo(n) ==
    IF n = 0 THEN {<<>>}
    ELSE LET shorter == StreamsUpTo(n - 1) IN
         shorter \cup {t \o b : t \in shorter, b \in Blocks}

Min(a, b) == IF a < b THEN a ELSE b

\* buffer.startswith(prefix)
StartsWith(text, prefix) ==
    Len(text) >= Len(prefix) /\ SubSeq(text, 1, Len(prefix)) = prefix

\* the index of the first '\n\n' in the buffer, 0 when there is none
RECURSIVE FindBlank(_, _)
FindBlank(buffer, i) ==
    IF i + 1 > Len(buffer) THEN 0
    ELSE IF buffer[i] = "\n" /\ buffer[i + 1] = "\n" THEN i
    ELSE FindBlank(buffer, i + 1)

\* the locals at the start, with the record of what the loop processed:
\* seen      the data payloads processed, in order
\* dones     [DONE] events seen
\* before    events counted in chunk_count when no [DONE] had been seen
\* after     events decoded after a [DONE] had been seen
\* textAfter final_text was assigned after a [DONE] had been seen
\* exc       the exception that left the try block
SseStart ==
    [buffer |-> <<>>, chunk_count |-> 0, final_text |-> PyStr(<<>>),
     seen |-> <<>>, dones |-> 0, before |-> 0, after |-> 0,
     textAfter |-> FALSE, exc |-> "none"]

\* the statements under 'else:' for one event payload
OnEvent(st, data) == Only({
    LET counted == [st EXCEPT !.chunk_count = @ + 1,
                              !.before = IF st.dones = 0 THEN @ + 1 ELSE @,
                              !.after = IF st.dones > 0 THEN @ + 1 ELSE @]
        content == DictGet(j.val, "content", EmptyDict)
        parts == IF content.ok
                 THEN DictGet(content.val, "parts", PyList(<<>>))
                 ELSE content
        part == IF parts.ok /\ Truthy(parts.val)
                THEN ItemIndex(parts.val, FALSE) ELSE parts
        text == IF part.ok /\ Truthy(parts.val)
                THEN DictGet(part.val, "text", PyStr(<<>>)) ELSE part
        assigned == [counted EXCEPT !.final_text = text.val,
                                    !.textAfter = @ \/ st.dones > 0]
    IN  IF ~j.ok THEN [st EXCEPT !.exc = "JSONDecodeError"]
        ELSE IF ~parts.ok THEN [counted EXCEPT !.exc = parts.exc]
        ELSE IF ~Truthy(parts.val) THEN counted
        ELSE IF ~text.ok THEN [counted EXCEPT !.exc = text.exc]
        ELSE IF ~PyLen(text.val).ok
             THEN [assigned EXCEPT !.exc = PyLen(text.val).exc]
        ELSE assigned
    : j \in {JsonLoads(data)} })

\* one block that a blank line ended
OnLine(st, line) ==
    IF ~StartsWith(line, DataPrefix) THEN st
    ELSE LET data == SubSeq(line, Len(DataPrefix) + 1, Len(line))
             noted == [st EXCEPT !.seen = Append(@, data)] IN
         IF data = DoneMarker
         THEN [noted EXCEPT !.dones = @ + 1]
         ELSE OnEvent(noted, data)

\* while '\n\n' in buffer: ...
RECURSIVE Drain(_)
Drain(st) ==
    Only({ IF i = 0 \/ st.exc # "none" THEN st
           ELSE Only({Drain(next) :
                next \in {OnLine([st EXCEPT !.buffer = SubSeq(@, i + 2, Len(@))],
                                 SubSeq(st.buffer, 1, i - 1))}})
           : i \in {FindBlank(st.buffer, 1)} })

\* the prints after the try statement, of which final_text[:100] raises when
\* final_text is no str, and return chunk_count > 0
Verdict(st) ==
    IF ~PySlice(st.final_text).ok THEN "raised"
    ELSE IF st.chunk_count > 0 THEN "pass" ELSE "fail"

SSInit ==
    /\ ss_pc = "open"
    /\ ss_rest \in StreamsUpTo(MaxBlocks)
    /\ ss_stream = ss_rest
    /\ ss_st = SseStart
    /\ ss_ret = "none"

\* urlopen succeeds
SS_Open ==
    /\ ss_pc = "open"
    /\ ss_pc' = "reading"
    /\ UNCHANGED <<ss_rest, ss_stream, ss_st, ss_ret, ssOthers>>

\* urlopen raises (URLError, HTTPError): except Exception, then the return
SS_OpenFails ==
    /\ ss_pc = "open"
    /\ ss_st' = [ss_st EXCEPT !.exc = "URLError"]
    /\ ss_pc' = "done"
    /\ ss_ret' = Verdict(ss_st)
    /\ UNCHANGED <<ss_rest, ss_stream, ssOthers>>

\* one turn of 'while True': read(256) delivers at most 256 atoms, nothing
\* when the stream has closed
SS_Read ==
    /\ ss_pc = "reading"
    /\ IF ss_rest = <<>>
       THEN /\ ss_pc' = "done"
            /\ ss_ret' = Verdict(ss_st)
            /\ UNCHANGED <<ss_rest, ss_st>>
       ELSE \E n \in 1..Min(ReadSize, Len(ss_rest)) :
            \E st \in {Drain([ss_st EXCEPT
                                !.buffer = @ \o SubSeq(ss_rest, 1, n)])} :
            /\ ss_rest' = SubSeq(ss_rest, n + 1, Len(ss_rest))
            /\ ss_st' = st
            /\ IF st.exc = "none"
               THEN UNCHANGED <<ss_pc, ss_ret>>
               ELSE ss_pc' = "done" /\ ss_ret' = Verdict(st)
    /\ UNCHANGED <<ss_stream, ssOthers>>

\* read raises (timeout, connection lost): except Exception, then the return
SS_ReadFails ==
    /\ ss_pc = "reading"
    /\ ss_st' = [ss_st EXCEPT !.exc = "timeout"]
    /\ ss_pc' = "done"
    /\ ss_ret' = Verdict(ss_st)
    /\ UNCHANGED <<ss_rest, ss_stream, ssOthers>>

SSNext == SS_Open \/ SS_OpenFails \/ SS_Read \/ SS_ReadFails

SSIdle ==
    /\ ss_pc = "idle" /\ ss_rest = <<>> /\ ss_stream = <<>>
    /\ ss_st = SseStart /\ ss_ret = "none"

\* C8: the consumer processes event payloads only until '[DONE]' is observed
\* or the stream closes: no event that arrives after '[DONE]' is decoded,
\* counted in chunk_count or used as final_text.
C8_NothingAfterDone ==
    ss_st.after = 0 /\ ~ss_st.textAfter

\* C9: test_sse_streaming reports success only if the stream yielded at least
\* one event chunk before the terminal '[DONE]' marker.
C9_SuccessNeedsChunkBeforeDone ==
    (ss_pc = "done" /\ ss_ret = "pass") => ss_st.before >= 1

\* the payloads of the blocks of a stream that a blank line ends and that
\* start with 'data: ', in stream order
RECURSIVE DataBlocksOf(_)
DataBlocksOf(stream) ==
    Only({ IF i = 0 THEN <<>>
           ELSE IF StartsWith(SubSeq(stream, 1, i - 1), DataPrefix)
           THEN <<SubSeq(stream, Len(DataPrefix) + 1, i - 1)>>
                    \o DataBlocksOf(SubSeq(stream, i + 2, Len(stream)))
           ELSE DataBlocksOf(SubSeq(stream, i + 2, Len(stream)))
           : i \in {FindBlank(stream, 1)} })

\* a is the beginning of b
IsPrefix(a, b) == Len(a) <= Len(b) /\ SubSeq(b, 1, Len(a)) = a

\* C27: however the stream is cut into read(256) chunks, the events
\* processed are blocks of the stream that a blank line ends and that start
\* with 'data: ', in stream order and each once, and when the stream has
\* been read to its close they are all of them; an open block at the end is
\* not among them
C27_EventsIndependentOfChunks ==
    /\ IsPrefix(ss_st.seen, DataBlocksOf(ss_stream))
    /\ (ss_pc = "done" /\ ss_rest = <<>>) =>
        ss_st.seen = DataBlocksOf(ss_stream)

-----------------------------------------------------------------------------
(* test_parallel_fanout (test_complex_agents.py).  Its make_request is the *)
(* code of test_adk.py's make_request with the timeout as a parameter.     *)

\* the roles of the three sessions, in the order they are submitted
sessions == <<"Analyst", "Scientist", "Artist">>
Futures == 1..Len(sessions)

color_keywords == {"red", "blue", "yellow", "green", "cyan", "magenta"}

\* repr(v) inside an f-string, as atoms
RECURSIVE PyRepr(_), ReprElems(_), ReprMembers(_)
PyRepr(v) ==
    CASE v.t = "int" -> DumpInt(v.n)
      [] v.t = "str" -> <<"'">> \o v.s \o <<"'">>
      [] v.t = "list" -> <<"[">> \o ReprElems(v.items) \o <<"]">>
      [] v.t = "dict" -> <<"{">> \o ReprMembers(v.fields) \o <<"}">>
      [] OTHER -> <<"None">>

ReprElems(items) ==
    IF items = <<>> THEN <<>>
    ELSE IF Len(items) = 1 THEN PyRepr(items[1])
    ELSE PyRepr(items[1]) \o <<",", " ">> \o ReprElems(Tail(items))

ReprMembers(fields) ==
    IF fields = <<>> THEN <<>>
    ELSE LET m == <<"'", fields[1][1], "'", ":", " ">> \o PyRepr(fields[1][2]) IN
         IF Len(fields) = 1 THEN m
         ELSE m \o <<",", " ">> \o ReprMembers(Tail(fields))

\* f"ERROR: status={status}, response={events}"
ErrorText(status, events) ==
    PyStr(<<"ERROR: status=">> \o DumpInt(status) \o <<", response=">>
              \o PyRepr(events))

\* events[0].get('content', {}).get('parts', []): [ok, val, exc]
PartsOf(events) ==
    Only({ IF content.ok THEN DictGet(content.val, "parts", PyList(<<>>))
           ELSE content
           : content \in {DictGet(ItemIndex(events, FALSE).val, "content",
                                  EmptyDict)} })

\* parts[0].get('text', ''): [ok, val, exc]
TextOf(parts) ==
    Only({ IF part.ok THEN DictGet(part.val, "text", PyStr(<<>>)) ELSE part
           : part \in {ItemIndex(parts, FALSE)} })

\* run_turn, given what the server does with its request: [ok, val, exc]
run_turn(srv) ==
    Only({ IF o.kind = "raise" THEN PyErr(o.exc)
           ELSE IF o.status = 200 /\ o.body.t = "list" /\ Len(o.body.items) > 0
           THEN Only({ IF ~parts.ok THEN parts
                       ELSE IF Truthy(parts.val) THEN TextOf(parts.val)
                       ELSE PyOk(ErrorText(o.status, o.body))
                       : parts \in {PartsOf(o.body)} })
           ELSE PyOk(ErrorText(o.status, o.body))
           : o \in {make_request(srv)} })

\* what the server may send for /run
FanValues ==
    { PyList(<<EventWith(TextPart(PyStr(<<"green">>)))>>),
      PyList(<<EventWith(TextPart(PyStr(<<"a">>)))>>),
      PyList(<<EventWith(TextPart(PyInt(1)))>>),
      PyList(<<EventWith(TextPart(PyList(<<>>)))>>),
      PyList(<<PyInt(1)>>),
      PyList(<<>>),
      PyDict(<< <<"error", PyStr(<<"GREEN">>)>> >>) }

FanBodies == {<<"x">>} \cup {JsonDumps(v) : v \in FanValues}

\* run_turn tells status 200 from the others, make_request 2xx from the others
FanAnswers == {a \in AnswersOver(FanBodies) : a.status \in {200, 500}}

\* a future: st is "new" before submit, then "queued", "running" while
\* execute_agent is in run_turn, "done" with its response or "failed" with
\* its exception
NewFuture == [st |-> "new", val |-> PyNone, exc |-> "none"]

FOInit ==
    /\ fo_pc = "submit"
    /\ fo_next = 1
    /\ fo_fut = [i \in Futures |-> NewFuture]
    /\ fo_yielded = {}
    /\ fo_inflight = 0
    /\ fo_results = <<>>
    /\ fo_ret = "none"
    /\ fo_exc = "none"

Finished(i) == fo_fut[i].st \in {"done", "failed"}
Running == {i \in Futures : fo_fut[i].st = "running"}

\* executor.submit(execute_agent, s) for s in sessions
FO_Submit ==
    /\ fo_pc = "submit"
    /\ fo_fut' = [fo_fut EXCEPT ![fo_next].st = "queued"]
    /\ fo_next' = fo_next + 1
    /\ fo_pc' = IF fo_next = Len(sessions) THEN "collect" ELSE "submit"
    /\ UNCHANGED <<fo_yielded, fo_inflight, fo_results, fo_ret, fo_exc>>
    /\ UNCHANGED foOthers

FO_StartUnbounded(i) ==
    /\ fo_fut[i].st \in {"queued", "running"}
    /\ fo_fut' = [fo_fut EXCEPT ![i].st = "running"]
    /\ fo_inflight' = fo_inflight + 1
    /\ UNCHANGED <<fo_pc, fo_next, fo_yielded, fo_results, fo_ret, fo_exc>>
    /\ UNCHANGED foOthers

\* a worker thread takes the work item and sends the request of run_turn
FO_Start(i) ==
    /\ fo_fut[i].st = "queued"
    /\ Cardinality(Running) < max_workers
    /\ fo_fut' = [fo_fut EXCEPT ![i].st = "running"]
    /\ fo_inflight' = fo_inflight + 1
    /\ UNCHANGED <<fo_pc, fo_next, fo_yielded, fo_results, fo_ret, fo_exc>>
    /\ UNCHANGED foOthers

\* execute_agent returns or raises
FO_Complete(i) ==
    /\ fo_fut[i].st = "running"
    /\ \E srv \in FanAnswers : \E r \in {run_turn(srv)} :
        fo_fut' = [fo_fut EXCEPT ![i] =
                     IF r.ok THEN [st |-> "done", val |-> r.val, exc |-> "none"]
                     ELSE [st |-> "failed", val |-> PyNone, exc |-> r.exc]]
    /\ fo_inflight' = fo_inflight - 1
    /\ UNCHANGED <<fo_pc, fo_next, fo_yielded, fo_results, fo_ret, fo_exc>>
    /\ UNCHANGED foOthers

\* one round of the as_completed loop: future.result(), results.append and
\* the print of result['response'][:80]
FO_Yield(i) ==
    /\ fo_pc = "collect"
    /\ i \notin fo_yielded
    /\ Finished(i)
    /\ fo_yielded' = fo_yielded \cup {i}
    /\ IF fo_fut[i].st = "failed"
       THEN /\ fo_pc' = "unwind"
            /\ fo_exc' = fo_fut[i].exc
            /\ UNCHANGED fo_results
       ELSE /\ fo_results' = Append(fo_results,
                                [role |-> sessions[i], response |-> fo_fut[i].val])
            /\ IF PySlice(fo_fut[i].val).ok
               THEN UNCHANGED <<fo_pc, fo_exc>>
               ELSE /\ fo_pc' = "unwind"
                    /\ fo_exc' = PySlice(fo_fut[i].val).exc
    /\ UNCHANGED <<fo_next, fo_fut, fo_inflight, fo_ret>>
    /\ UNCHANGED foOthers

SomeYielded == fo_yielded # {}
\* as_completed has yielded every future of future_to_session
AllYielded == fo_yielded = Futures

\* the loop ends and the with block is left: shutdown(wait=True)
FO_PoolExit ==
    /\ fo_pc = "collect"
    /\ AllYielded
    /\ fo_pc' = "gather"
    /\ UNCHANGED <<fo_next, fo_fut, fo_yielded, fo_inflight, fo_results, fo_ret,
                   fo_exc>>
    /\ UNCHANGED foOthers

\* an exception leaves the with block: shutdown(wait=True) waits for the
\* work items still queued or running, then the exception leaves the test
FO_Unwind ==
    /\ fo_pc = "unwind"
    /\ \A i \in Futures : Finished(i)
    /\ fo_pc' = "raised"
    /\ UNCHANGED <<fo_next, fo_fut, fo_yielded, fo_inflight, fo_results, fo_ret,
                   fo_exc>>
    /\ UNCHANGED foOthers

\* any(color.lower() in resp.lower() for color in color_keywords)
IsColor(resp) == \E c \in color_keywords : Contains(PyLower(resp).val, c)

ValidAmongFirstTwo(results) ==
    Cardinality({k \in 1..Min(2, Len(results)) : IsColor(results[k].response)})

\* valid_responses after the for loop over all_responses
valid_responses(results) ==
    Cardinality({k \in 1..Len(results) : IsColor(results[k].response)})

\* the Gather & Analysis block
FO_Gather ==
    /\ fo_pc = "gather"
    /\ IF \E k \in 1..Len(fo_results) : ~PyLower(fo_results[k].response).ok
       THEN /\ fo_pc' = "raised"
            /\ fo_exc' = "AttributeError"
            /\ UNCHANGED fo_ret
       ELSE /\ fo_pc' = "done"
            /\ fo_ret' = IF valid_responses(fo_results) >= 2
                            /\ Len(fo_results) = 3
                         THEN "pass" ELSE "fail"
            /\ UNCHANGED fo_exc
    /\ UNCHANGED <<fo_next, fo_fut, fo_yielded, fo_inflight, fo_results>>
    /\ UNCHANGED foOthers

FONext ==
    \/ FO_Submit
    \/ \E i \in Futures : FO_Start(i)
    \/ \E i \in Futures : FO_Complete(i)
    \/ \E i \in Futures : FO_Yield(i)
    \/ FO_PoolExit
    \/ FO_Unwind
    \/ FO_Gather

FOIdle ==
    /\ fo_pc = "idle"
    /\ fo_next = 1
    /\ fo_fut = <<>>
    /\ fo_yielded = {}
    /\ fo_inflight = 0
    /\ fo_results = <<>>
    /\ fo_ret = "none"
    /\ fo_exc = "none"

\* C10: the gather-and-analysis step starts only after all three run_turn
\* calls have completed, and results then holds exactly one entry per
\* launched session
C10_GatherAfterAllComplete ==
    fo_pc \in {"gather", "done"} =>
        /\ \A i \in Futures : fo_fut[i].st = "done"
        /\ Len(fo_results) = Len(sessions)
        /\ \A i \in Futures :
             Cardinality({k \in 1..Len(fo_results) :
                            fo_results[k].role = sessions[i]}) = 1

\* the gather step is reached with the responses collected in another order
\* than the one the sessions were submitted in
C10_Witness ==
    /\ fo_pc = "gather"
    /\ Len(fo_results) = 3
    /\ fo_results[1].role = "Artist"
    /\ \A i \in Futures : fo_fut[i].st = "done"

\* how a call of test_parallel_fanout has ended
FanOutcome == IF fo_pc = "done" THEN fo_ret ELSE "raised"

\* the outcome computed from the responses of the three sessions alone, taken
\* in the order of sessions
OutcomeOfAssignment(fut) ==
    IF \E i \in Futures :
          \/ fut[i].st = "failed"
          \/ ~PySlice(fut[i].val).ok
          \/ ~PyLower(fut[i].val).ok
    THEN "raised"
    ELSE IF Cardinality({i \in Futures : IsColor(fut[i].val)}) >= 2
    THEN "pass" ELSE "fail"

\* C11: the verdict of test_parallel_fanout does not depend on the order in
\* which the three responses complete: whenever the test has ended, its
\* success value is the one determined by the assignment of responses to the
\* sessions
C11_VerdictIndependentOfOrder ==
    fo_pc \in {"done", "raised"} => FanOutcome = OutcomeOfAssignment(fo_fut)

\* the test passed with a response that names no colour, collected first, and
\* the session submitted first collected last
C11_Witness ==
    /\ fo_pc = "done" /\ fo_ret = "pass"
    /\ ~IsColor(fo_results[1].response)
    /\ fo_results[3].role = sessions[1]

\* C12: inside test_parallel_fanout the number of requests in flight never
\* exceeds the worker-pool size of 3, and the main thread sends none itself:
\* every request in flight is that of a running future
C12_InFlightWithinPool ==
    fo_pc # "idle" =>
        /\ fo_inflight <= max_workers
        /\ fo_inflight = Cardinality(Running)
        /\ fo_pc \in {"gather", "done", "raised"} => fo_inflight = 0

\* all three requests are in flight at once
C12_Witness == fo_inflight = 3 /\ fo_pc = "collect"

-----------------------------------------------------------------------------
(* test_sessions.py: test_session_api.  make_request there is the code of  *)
(* test_adk.py's make_request.                                             *)

\* range(3) of the create loop
SessionsToCreate == 3

\* a listing of n sessions
Listing(n) == PyList([i \in 1..n |-> PyDict(<< <<"id", PyStr(<<"a">>)>> >>)])

SaValues ==
    { Listing(0), Listing(1), Listing(3), Listing(4),
      PyDict(<< <<"id", PyStr(<<"a">>)>> >>),
      PyDict(<< <<"id", PyInt(1)>> >>),
      EmptyDict }

SaBodies == {<<>>, <<"x">>} \cup {JsonDumps(v) : v \in SaValues}
SaAnswers == AnswersOver(SaBodies)

SAInit ==
    /\ sa_pc = "list_before"
    /\ sa_counts = <<>>
    /\ sa_tries = 0
    /\ sa_created = <<>>
    /\ sa_deleted = 0
    /\ sa_ret = "none"
    /\ sa_exc = "none"

SA_Raise(exc) ==
    /\ sa_pc' = "raised"
    /\ sa_exc' = exc
    /\ UNCHANGED <<sa_counts, sa_tries, sa_deleted, sa_ret>>

\* a listing came back: the print of its count
SA_Listed(o, next) ==
    IF o.kind = "raise" THEN SA_Raise(o.exc)
    ELSE /\ sa_counts' = Append(sa_counts, ListCount(o.body))
         /\ sa_pc' = next
         /\ UNCHANGED <<sa_tries, sa_deleted, sa_ret, sa_exc>>

\* List sessions before
SA_ListBefore ==
    /\ sa_pc = "list_before"
    /\ \E srv \in SaAnswers : \E o \in {make_request(srv)} :
        SA_Listed(o, "create")
    /\ UNCHANGED <<sa_created, saOthers>>

\* session.get('id', 'N/A')[:30]
ShownId(session) ==
    Only({ IF id.ok THEN PySlice(id.val) ELSE id
           : id \in {DictGet(session, "id", PyStr(<<"N/A">>))} })

\* one round of 'for i in range(3)'
SA_Create ==
    /\ sa_pc = "create"
    /\ \E srv \in SaAnswers : \E o \in {make_request(srv)} :
        IF o.kind = "raise" THEN SA_Raise(o.exc) /\ UNCHANGED sa_created
        ELSE IF o.status = 201 /\ ~DictGet(o.body, "id", PyNone).ok
        THEN SA_Raise("AttributeError") /\ UNCHANGED sa_created
        ELSE IF o.status = 201 /\ ~ShownId(o.body).ok
        THEN /\ sa_created' = Append(sa_created, DictGet(o.body, "id", PyNone).val)
             /\ SA_Raise(ShownId(o.body).exc)
        ELSE /\ sa_created' =
                  IF o.status = 201
                  THEN Append(sa_created, DictGet(o.body, "id", PyNone).val)
                  ELSE sa_created
             /\ sa_tries' = sa_tries + 1
             /\ sa_pc' = IF sa_tries + 1 = SessionsToCreate
                         THEN "list_after" ELSE "create"
             /\ UNCHANGED <<sa_counts, sa_deleted, sa_ret, sa_exc>>
    /\ UNCHANGED saOthers

\* List sessions after
SA_ListAfter ==
    /\ sa_pc = "list_after"
    /\ \E srv \in SaAnswers : \E o \in {make_request(srv)} :
        SA_Listed(o, IF sa_created = <<>> THEN "list_final" ELSE "delete")
    /\ UNCHANGED <<sa_created, saOthers>>

\* one round of 'for session_id in created_ids': urlopen(req) with no
\* timeout, everything it raises is swallowed by the bare except
SA_Delete ==
    /\ sa_pc = "delete"
    /\ \/ \E srv \in DeleteAnswers :
            /\ sa_deleted' = sa_deleted + 1
            /\ sa_pc' = IF sa_deleted + 1 = Len(sa_created)
                        THEN "list_final" ELSE "delete"
       \/ /\ sa_pc' = "blocked"
          /\ UNCHANGED sa_deleted
    /\ UNCHANGED <<sa_counts, sa_tries, sa_created, sa_ret, sa_exc>>
    /\ UNCHANGED saOthers

\* the last listing and return len(created_ids) == 3
SA_ListFinal ==
    /\ sa_pc = "list_final"
    /\ \E srv \in SaAnswers : \E o \in {make_request(srv)} :
        IF o.kind = "raise" THEN SA_Raise(o.exc)
        ELSE /\ sa_counts' = Append(sa_counts, ListCount(o.body))
             /\ sa_pc' = "done"
             /\ sa_ret' = IF Len(sa_created) = 3 THEN "pass" ELSE "fail"
             /\ UNCHANGED <<sa_tries, sa_deleted, sa_exc>>
    /\ UNCHANGED <<sa_created, saOthers>>

SANext ==
    SA_ListBefore \/ SA_Create \/ SA_ListAfter \/ SA_Delete \/ SA_ListFinal

SAIdle ==
    /\ sa_pc = "idle"
    /\ sa_counts = <<>>
    /\ sa_tries = 0
    /\ sa_created = <<>>
    /\ sa_deleted = 0
    /\ sa_ret = "none"
    /\ sa_exc = "none"

\* C13: test_session_api passes only if the listing after the three creates
\* reports exactly three more entries than the listing before, and the
\* listing after the deletes reports the count of the listing before
C13_CountsChecked ==
    (sa_pc = "done" /\ sa_ret = "pass") =>
        /\ sa_counts[2] = sa_counts[1] + SessionsToCreate
        /\ sa_counts[3] = sa_counts[1]

-----------------------------------------------------------------------------
(* test_agent.py: run_conversation and test_multi_turn *)

\* the four user messages of test_multi_turn
messages == <<"sum", "multiply", "recall sum", "recall product">>

\* f"session_{id(messages)}"
SessionOf(msgs) == "session"

\* f"ERROR: {e}"
ErrorOf(exc) == PyStr(<<"ERROR: ", exc>>)

MultiAnswers == AdkAnswers

\* one round of the for loop, given what the server does: what is appended
\* to responses, as [appended, val]
Nothing == [appended |-> FALSE, val |-> PyNone]
Appended(v) == [appended |-> TRUE, val |-> v]

\* the statements under 'if events and isinstance(events, list)'
OnEvents(events) ==
    Only({ IF ~parts.ok THEN Appended(ErrorOf(parts.exc))
           ELSE IF ~Truthy(parts.val) THEN Nothing
           ELSE Only({ IF ~text.ok THEN Appended(ErrorOf(text.exc))
                       ELSE IF ~PySlice(text.val).ok
                       THEN Appended(ErrorOf(PySlice(text.val).exc))
                       ELSE Appended(text.val)
                       : text \in {TextOf(parts.val)} })
           : parts \in {PartsOf(events)} })

\* the try statement of run_conversation
Turn(srv) ==
    IF srv.fail = "connect" THEN Appended(ErrorOf("URLError"))
    ELSE IF ~Is2xx(srv.status) THEN Appended(ErrorOf("HTTPError"))
    ELSE IF srv.fail = "body" THEN Appended(ErrorOf("IncompleteRead"))
    ELSE Only({ IF ~j.ok THEN Appended(ErrorOf("JSONDecodeError"))
                ELSE IF Truthy(j.val) /\ j.val.t = "list"
                THEN OnEvents(j.val)
                ELSE Nothing
                : j \in {JsonLoads(srv.body)} })

MTInit ==
    /\ mt_pc = "turn"
    /\ mt_sent = <<>>
    /\ mt_responses = <<>>
    /\ mt_ret = "none"

\* one round of 'for i, message in enumerate(messages)'
MT_Turn ==
    /\ mt_pc = "turn"
    /\ mt_sent' = Append(mt_sent, [session |-> SessionOf(messages),
                                   message |-> messages[Len(mt_sent) + 1]])
    /\ \E srv \in MultiAnswers : \E r \in {Turn(srv)} :
        mt_responses' = IF r.appended THEN Append(mt_responses, r.val)
                        ELSE mt_responses
    /\ mt_pc' = IF Len(mt_sent) + 1 = Len(messages) THEN "summary" ELSE "turn"
    /\ UNCHANGED <<mt_ret, mtOthers>>

\* the Test Summary block of test_multi_turn
MT_Summary ==
    /\ mt_pc = "summary"
    /\ mt_ret' = IF Len(mt_responses) = Len(messages) THEN "pass" ELSE "fail"
    /\ mt_pc' = "done"
    /\ UNCHANGED <<mt_sent, mt_responses, mtOthers>>

MTNext == MT_Turn \/ MT_Summary

MTIdle ==
    /\ mt_pc = "idle"
    /\ mt_sent = <<>>
    /\ mt_responses = <<>>
    /\ mt_ret = "none"

\* text starts with 'ERROR'
IsErrorText(v) == v.t = "str" /\ v.s # <<>> /\ v.s[1] = "ERROR: "

\* C15: test_multi_turn sends its K messages on one session id and reports
\* pass only if it obtained K responses, none of which is an error
C15_KResponsesNoneError ==
    (mt_pc = "done" /\ mt_ret = "pass") =>
        /\ Len(mt_sent) = Len(messages)
        /\ \A k \in 1..Len(mt_sent) : mt_sent[k].session = mt_sent[1].session
        /\ Len(mt_responses) = Len(messages)
        /\ \A k \in 1..Len(mt_responses) : ~IsErrorText(mt_responses[k])

-----------------------------------------------------------------------------
(* test_complex_agents.py: test_loop_agent *)

max_iterations == 3
quality_threshold == 7

\* what the server may send for /run
LoopValues ==
    { PyList(<<EventWith(TextPart(PyStr(<<"300">>)))>>),
      PyList(<<EventWith(TextPart(PyStr(<<"4">>)))>>),
      PyList(<<EventWith(TextPart(PyStr(<<"0">>)))>>),
      PyList(<<EventWith(TextPart(PyStr(<<"score 8">>)))>>),
      PyList(<<EventWith(TextPart(PyInt(1)))>>),
      PyList(<<PyInt(1)>>),
      PyList(<<>>),
      PyDict(<< <<"error", PyStr(<<"a">>)>> >>) }

LoopBodies == {<<"x">>} \cup {JsonDumps(v) : v \in LoopValues}

\* run_turn tells status 200 from the others, make_request 2xx from the
\* others; a status that is not 200 comes with an empty list or with a body
\* that is not JSON
LoopAnswers ==
    {a \in AnswersOver(LoopBodies) :
        \/ a.status = 200
        \/ a.status = 500 /\ a.body \in {<<"x">>, JsonDumps(PyList(<<>>))}}

\* the characters of an atom of a text; an atom that is not listed never
\* lies within the first five characters of a response and counts as one
\* character
CharsOf(a) ==
    CASE a = "300" -> <<"3", "0", "0">>
      [] a = "300 green" -> <<"3", "0", "0", " ", "g", "r", "e", "e", "n">>
      [] a = "score 8" -> <<"s", "c", "o", "r", "e", " ", "8">>
      [] a = "ERROR: status=" ->
            <<"E", "R", "R", "O", "R", ":", " ", "s", "t", "a", "t", "u",
              "s", "=">>
      [] a = "ERROR: " -> <<"E", "R", "R", "O", "R", ":", " ">>
      [] OTHER -> <<a>>

\* the characters of a str
RECURSIVE Chars(_)
Chars(s) == IF s = <<>> THEN <<>> ELSE CharsOf(Head(s)) \o Chars(Tail(s))

\* c[:n]
Take(c, n) == SubSeq(c, 1, Min(n, Len(c)))

\* str.isdigit
DecimalDigits == <<"0", "1", "2", "3", "4", "5", "6", "7", "8", "9">>
isdigit(c) == \E d \in 1..Len(DecimalDigits) : DecimalDigits[d] = c
DigitValue(c) == (CHOOSE d \in 1..Len(DecimalDigits) : DecimalDigits[d] = c) - 1

\* int(d) for a str of decimal digits, -1 standing for the ValueError of int('')
RECURSIVE IntOf(_)
IntOf(d) ==
    IF d = <<>> THEN -1
    ELSE IF Len(d) = 1 THEN DigitValue(d[1])
    ELSE 10 * IntOf(SubSeq(d, 1, Len(d) - 1)) + DigitValue(d[Len(d)])

\* int(''.join(filter(str.isdigit, score_response[:5])))
DigitsOf(s) == IntOf(SelectSeq(Take(Chars(s), 5), isdigit))

Max(a, b) == IF a > b THEN a ELSE b

\* the score without the clamp
ScoreOfUnclamped(score_response) ==
    IF score_response.t # "str" THEN 5
    ELSE IF DigitsOf(score_response.s) < 0 THEN 5
    ELSE DigitsOf(score_response.s)

\* the try statement that extracts the score: whatever raises gives 5
ScoreOf(score_response) ==
    IF score_response.t # "str" THEN 5
    ELSE IF DigitsOf(score_response.s) < 0 THEN 5
    ELSE Min(Max(DigitsOf(score_response.s), 1), 10)

\* the text is an 'ERROR: status=..., response=...' string of run_turn
IsRunTurnError(v) ==
    v.t = "str" /\ v.s # <<>> /\ v.s[1] = "ERROR: status="

LPInit ==
    /\ lp_pc = "generate"
    /\ lp_i = 0
    /\ lp_draft = PyNone
    /\ lp_score = 0
    /\ lp_calls = <<>>
    /\ lp_response = PyNone
    /\ lp_iterations = 0
    /\ lp_total = 0
    /\ lp_ret = "none"
    /\ lp_exc = "none"

LP_Raise(exc) ==
    /\ lp_pc' = "raised"
    /\ lp_exc' = exc
    /\ UNCHANGED <<lp_i, lp_draft, lp_score, lp_iterations, lp_total, lp_ret>>

LP_Called(op, r) ==
    lp_calls' = Append(lp_calls,
                       [op |-> op, session |-> <<op, lp_i>>,
                        error |-> r.ok /\ IsRunTurnError(r.val)])

\* a new draft came back: the print of current_draft[:150]; the number of
\* entries added to iterations follows when the print did not raise
LP_Draft(r, next, i, added) ==
    IF ~r.ok THEN LP_Raise(r.exc)
    ELSE IF ~PySlice(r.val).ok
    THEN /\ lp_draft' = r.val
         /\ lp_pc' = "raised"
         /\ lp_exc' = PySlice(r.val).exc
         /\ UNCHANGED <<lp_i, lp_score, lp_iterations, lp_total, lp_ret>>
    ELSE /\ lp_draft' = r.val
         /\ lp_pc' = next
         /\ lp_i' = i
         /\ lp_iterations' = lp_iterations + added
         /\ UNCHANGED <<lp_score, lp_total, lp_ret, lp_exc>>

\* Initial generation
LP_Generate ==
    /\ lp_pc = "generate"
    /\ \E srv \in LoopAnswers : \E r \in {run_turn(srv)} :
        /\ LP_Called("gen", r)
        /\ LP_Draft(r, "evaluate", lp_i, 0)
    /\ UNCHANGED <<lp_response, lpOthers>>

\* the evaluation without the break
LP_EvaluateNoBreak ==
    /\ lp_pc = "evaluate"
    /\ \E srv \in LoopAnswers : \E r \in {run_turn(srv)} :
        /\ LP_Called("eval", r)
        /\ IF ~r.ok THEN LP_Raise(r.exc) /\ UNCHANGED lp_response
           ELSE /\ lp_response' = r.val
                /\ lp_score' = ScoreOf(r.val)
                /\ lp_pc' = "refine"
                /\ UNCHANGED <<lp_i, lp_draft, lp_iterations, lp_total,
                               lp_ret, lp_exc>>
    /\ UNCHANGED lpOthers

\* Evaluate current draft, up to the break
LP_Evaluate ==
    /\ lp_pc = "evaluate"
    /\ \E srv \in LoopAnswers : \E r \in {run_turn(srv)} :
        /\ LP_Called("eval", r)
        /\ IF ~r.ok THEN LP_Raise(r.exc) /\ UNCHANGED lp_response
           ELSE /\ lp_response' = r.val
                /\ lp_score' = ScoreOf(r.val)
                /\ lp_pc' = IF ScoreOf(r.val) >= quality_threshold
                            THEN "final" ELSE "refine"
                /\ UNCHANGED <<lp_i, lp_draft, lp_iterations, lp_total,
                               lp_ret, lp_exc>>
    /\ UNCHANGED lpOthers

\* Refine, and the end of the round
LP_Refine ==
    /\ lp_pc = "refine"
    /\ \E srv \in LoopAnswers : \E r \in {run_turn(srv)} :
        /\ LP_Called("refine", r)
        /\ LP_Draft(r, IF lp_i + 1 = max_iterations THEN "final"
                       ELSE "evaluate", lp_i + 1, 1)
    /\ UNCHANGED <<lp_response, lpOthers>>

\* the Final Result block
LP_Final ==
    /\ lp_pc = "final"
    /\ lp_total' = lp_iterations + 1
    /\ lp_ret' = IF lp_score >= quality_threshold - 2 THEN "pass" ELSE "fail"
    /\ lp_pc' = "done"
    /\ UNCHANGED <<lp_i, lp_draft, lp_score, lp_calls, lp_response,
                   lp_iterations, lp_exc, lpOthers>>

LPNext == LP_Generate \/ LP_Evaluate \/ LP_Refine \/ LP_Final

LPIdle ==
    /\ lp_pc = "idle"
    /\ lp_i = 0
    /\ lp_draft = PyNone
    /\ lp_score = 0
    /\ lp_calls = <<>>
    /\ lp_response = PyNone
    /\ lp_iterations = 0
    /\ lp_total = 0
    /\ lp_ret = "none"
    /\ lp_exc = "none"

\* C18: if every run_turn call of test_loop_agent returns an 'ERROR: ...'
\* string, test_loop_agent returns False
C18_AllErrorsFail ==
    (lp_pc = "done" /\ \A k \in 1..Len(lp_calls) : lp_calls[k].error)
        => lp_ret = "fail"

\* the run_turn calls of one kind made so far
CallsOf(op) == Cardinality({k \in 1..Len(lp_calls) : lp_calls[k].op = op})

\* the call has ended: it returned or it raised
LoopEnded == lp_pc \in {"done", "raised"}

C21_Bounds ==
    /\ CallsOf("eval") <= max_iterations
    /\ CallsOf("refine") <= max_iterations
    /\ Len(lp_calls) <= 2 * max_iterations + 1
    /\ lp_score >= quality_threshold =>
        /\ lp_calls[Len(lp_calls)].op = "eval"
        /\ lp_pc \in {"final", "done"}

\* C21: test_loop_agent ends, after at most 3 evaluate calls, at most 3
\* refine calls and at most 7 run_turn calls, and once an evaluation has
\* given a score of at least the threshold 7 that evaluation stays the last
\* call: no refine call follows it
C21_BoundedLoop == []C21_Bounds /\ <>LoopEnded

\* the loop stopped at its second evaluation
C21_Witness ==
    /\ lp_pc = "done"
    /\ lp_score >= quality_threshold
    /\ CallsOf("eval") = 2
    /\ CallsOf("refine") = 1

\* the first five characters of a str
FirstFive(v) == Take(Chars(v.s), 5)

\* C22: for an evaluator response that is a string the extracted score is
\* an integer from 1 to 10, and it is 5 when the first five characters of
\* the response hold no digit; the value returned is True exactly when the
\* last extracted score is at least 5
C22_ScoreAndVerdict ==
    /\ lp_response.t = "str" =>
        /\ lp_score \in 1..10
        /\ (\A k \in 1..Len(FirstFive(lp_response)) :
                ~isdigit(FirstFive(lp_response)[k])) => lp_score = 5
    /\ lp_pc = "done" => (lp_ret = "pass" <=> lp_score >= 5)

\* the evaluator answered with a zero, which the clamp lifts to 1, and the
\* test returned
C22_Witness ==
    /\ lp_pc = "done"
    /\ lp_response = PyStr(<<"0">>)
    /\ lp_score = 1
    /\ lp_ret = "fail"

\* C23: the 'Total iterations' figure printed at the end is the number of
\* iterations of the loop that were executed, one evaluation each
C23_TotalIsIterationsExecuted ==
    lp_pc = "done" => lp_total = CallsOf("eval")

-----------------------------------------------------------------------------
(* test_complex_agents.py: test_sequential_pipeline *)

\* the stages, by the name of their agent
Stages == <<"translation", "summarization", "formatting">>

\* f"sequential_{random.randint(10000, 99999)}", drawn once
PipelineSession == "sequential"

\* what the server may send for /run
PipeValues ==
    { PyList(<<EventWith(TextPart(PyStr(<<"a long answer">>)))>>),
      PyList(<<EventWith(TextPart(PyStr(<<"green">>)))>>),
      PyList(<<EventWith(TextPart(PyList(<<>>)))>>),
      PyList(<<EventWith(TextPart(PyInt(1)))>>),
      PyList(<<PyInt(1)>>),
      PyList(<<>>),
      PyDict(<< <<"error", PyStr(<<"a">>)>> >>) }

PipeBodies == {<<"x">>} \cup {JsonDumps(v) : v \in PipeValues}

\* run_turn tells status 200 from the others, make_request 2xx from the others
PipeAnswers == {a \in AnswersOver(PipeBodies) : a.status \in {200, 500}}

\* {v} in an f-string: str(v)
Format(v) == IF v.t = "str" THEN v.s ELSE PyRepr(v)

PromptWithout(stage, prev) == <<stage, "---", "---">>

\* stage1_prompt, stage2_prompt, stage3_prompt; prev is the result of the
\* stage before, which the first prompt does not have
Prompt(stage, prev) ==
    IF stage = Stages[1] THEN <<stage>>
    ELSE <<stage, "---">> \o Format(prev) \o <<"---">>

\* the number of characters of an atom of a text
AtomLen(a) ==
    CASE a = "a long answer" -> 13
      [] a = "ERROR: status=" -> 14
      [] a = ", response=" -> 11
      [] a = "300 green" -> 9
      [] a = "green" -> 5
      [] a = "300" -> 3
      [] OTHER -> 1

RECURSIVE CharCount(_)
CharCount(text) ==
    IF text = <<>> THEN 0 ELSE AtomLen(Head(text)) + CharCount(Tail(text))

\* len(v) of a result that has passed its print
ResultLen(v) == IF v.t = "str" THEN CharCount(v.s) ELSE Len(v.items)

\* "ERROR" in v
HasError(v) ==
    IF v.t = "str" THEN Contains(v, "ERROR")
    ELSE \E k \in 1..Len(v.items) : v.items[k] = PyStr(<<"ERROR">>)

PLInit ==
    /\ pl_pc = "send"
    /\ pl_sent = <<>>
    /\ pl_results = <<>>
    /\ pl_ret = "none"
    /\ pl_exc = "none"

\* run_turn up to urlopen: the prompt is built and the request sent
PL_Send ==
    /\ pl_pc = "send"
    /\ pl_sent' =
         Append(pl_sent,
                [session |-> PipelineSession,
                 prompt |-> Prompt(Stages[Len(pl_sent) + 1],
                                   IF pl_results = <<>> THEN PyNone
                                   ELSE pl_results[Len(pl_results)])])
    /\ pl_pc' = "wait"
    /\ UNCHANGED <<pl_results, pl_ret, pl_exc, plOthers>>

\* the response arrives: the rest of run_turn and the print of the result
PL_Receive ==
    /\ pl_pc = "wait"
    /\ \E srv \in PipeAnswers : \E r \in {run_turn(srv)} :
        IF ~r.ok
        THEN /\ pl_pc' = "raised"
             /\ pl_exc' = r.exc
             /\ UNCHANGED pl_results
        ELSE /\ pl_results' = Append(pl_results, r.val)
             /\ IF ~PySlice(r.val).ok
                THEN pl_pc' = "raised" /\ pl_exc' = PySlice(r.val).exc
                ELSE /\ pl_pc' = IF Len(pl_results) + 1 = Len(Stages)
                                 THEN "validate" ELSE "send"
                     /\ UNCHANGED pl_exc
    /\ UNCHANGED <<pl_sent, pl_ret, plOthers>>

\* Validate pipeline
PL_Validate ==
    /\ pl_pc = "validate"
    /\ pl_ret' = IF /\ ~HasError(pl_results[1])
                    /\ ~HasError(pl_results[2])
                    /\ ~HasError(pl_results[3])
                    /\ ResultLen(pl_results[1]) > 10
                    /\ ResultLen(pl_results[2]) > 10
                    /\ ResultLen(pl_results[3]) > 5
                 THEN "pass" ELSE "fail"
    /\ pl_pc' = "done"
    /\ UNCHANGED <<pl_sent, pl_results, pl_exc, plOthers>>

PLNext == PL_Send \/ PL_Receive \/ PL_Validate

PLIdle ==
    /\ pl_pc = "idle"
    /\ pl_sent = <<>>
    /\ pl_results = <<>>
    /\ pl_ret = "none"
    /\ pl_exc = "none"

\* part occurs in text as a run of consecutive atoms
Embeds(text, part) ==
    \E i \in 1..(Len(text) - Len(part) + 1) :
        SubSeq(text, i, i + Len(part) - 1) = part

\* C20: the three stages run one after another on the same session id, the
\* request of stage n+1 is sent only after the response of stage n was
\* received and embeds that response text in its prompt, and the pipeline
\* reports pass only if none of the three stage results contains 'ERROR'
C20_SequentialPipeline ==
    pl_pc # "idle" =>
        /\ Len(pl_sent) <= Len(pl_results) + 1
        /\ \A n \in 1..Len(pl_sent) :
             /\ pl_sent[n].session = pl_sent[1].session
             /\ pl_sent[n].prompt[1] = Stages[n]
             /\ n > 1 => /\ Len(pl_results) >= n - 1
                         /\ Embeds(pl_sent[n].prompt, Format(pl_results[n - 1]))
        /\ pl_ret = "pass" =>
             /\ Len(pl_sent) = 3 /\ Len(pl_results) = 3
             /\ \A n \in 1..3 : ~HasError(pl_results[n])

\* the pipeline passed, each later prompt carrying the result before it
C20_Witness ==
    /\ pl_pc = "done" /\ pl_ret = "pass"
    /\ Len(pl_sent) = 3
    /\ Embeds(pl_sent[3].prompt, pl_results[2].s)

-----------------------------------------------------------------------------
(* test_complex_agents.py: the script                                       *)

\* the keys of results, in the order of the try statements
Patterns ==
    <<"sequential_pipeline", "parallel_fanout", "hierarchical_coordinator",
      "agent_as_tool", "loop_agent">>

\* how a call of a pattern test ends: it returns its bool or an exception
\* leaves it (SpecPipe, SpecFan and SpecLoop tell which of them when); every
\* pattern test begins with a run_turn call, so a test that was called has
\* issued a request
TestOutcomes == {"True", "False", "raised"}

\* what the server may do with GET /health
HealthBodies ==
    {<<>>, <<"x">>, JsonDumps(EmptyDict),
     JsonDumps(PyDict(<< <<"status", PyStr(<<"a">>)>> >>))}
HealthAnswers == AnswersOver(HealthBodies)

NoHealth == [kind |-> "none", status |-> -1]

CMInit ==
    /\ cm_pc = "health"
    /\ cm_health = NoHealth
    /\ cm_ran = <<>>
    /\ cm_results = <<>>
    /\ cm_counts = <<0, 0>>
    /\ cm_said = "none"
    /\ cm_exit = -1

\* the health check passed for whatever make_request returned
HealthGateOpen(o) == TRUE

\* if status != 200
HealthGate(o) == o.status = 200

\* Check server health first; an exception that leaves make_request ends
\* the process with a traceback and exit code 1, as exit(1) does
CM_Health ==
    /\ cm_pc = "health"
    /\ \E srv \in HealthAnswers : \E o \in {make_request(srv)} :
        /\ cm_health' = [kind |-> o.kind, status |-> o.status]
        /\ IF o.kind = "return" /\ HealthGate(o)
           THEN /\ cm_pc' = Patterns[1]
                /\ cm_exit' = cm_exit
           ELSE /\ cm_pc' = "exited"
                /\ cm_exit' = 1
    /\ UNCHANGED <<cm_ran, cm_results, cm_counts, cm_said, cmOthers>>

\* the statement after the try statement of Patterns[k]
After(k) == IF k = Len(Patterns) THEN "summary" ELSE Patterns[k + 1]

\* a try statement whose except clause lets the exception through
TriedUncaught(k, outcome) ==
    /\ cm_ran' = Append(cm_ran, [key |-> Patterns[k], outcome |-> outcome])
    /\ IF outcome = "raised"
       THEN /\ cm_pc' = "exited"
            /\ cm_exit' = 1
            /\ UNCHANGED cm_results
       ELSE /\ cm_results' = Append(cm_results,
                                    [key |-> Patterns[k],
                                     value |-> outcome = "True"])
            /\ cm_pc' = After(k)
            /\ UNCHANGED cm_exit

\* try: results[key] = test(); except Exception: results[key] = False
Tried(k, outcome) ==
    /\ cm_ran' = Append(cm_ran, [key |-> Patterns[k], outcome |-> outcome])
    /\ cm_results' = Append(cm_results,
                            [key |-> Patterns[k], value |-> outcome = "True"])
    /\ cm_pc' = After(k)
    /\ UNCHANGED cm_exit

CM_Sequential ==
    /\ cm_pc = Patterns[1]
    /\ \E outcome \in TestOutcomes : Tried(1, outcome)
    /\ UNCHANGED <<cm_health, cm_counts, cm_said, cmOthers>>

CM_Parallel ==
    /\ cm_pc = Patterns[2]
    /\ \E outcome \in TestOutcomes : Tried(2, outcome)
    /\ UNCHANGED <<cm_health, cm_counts, cm_said, cmOthers>>

CM_Hierarchical ==
    /\ cm_pc = Patterns[3]
    /\ \E outcome \in TestOutcomes : Tried(3, outcome)
    /\ UNCHANGED <<cm_health, cm_counts, cm_said, cmOthers>>

CM_AgentAsTool ==
    /\ cm_pc = Patterns[4]
    /\ \E outcome \in TestOutcomes : Tried(4, outcome)
    /\ UNCHANGED <<cm_health, cm_counts, cm_said, cmOthers>>

CM_Loop ==
    /\ cm_pc = Patterns[5]
    /\ \E outcome \in TestOutcomes : Tried(5, outcome)
    /\ UNCHANGED <<cm_health, cm_counts, cm_said, cmOthers>>

\* sum(1 for v in results.values() if v)
PassedCount(results) ==
    Cardinality({k \in 1..Len(results) : results[k].value})

\* Final Summary; the script ends after it, with exit code 0
CM_Summary ==
    /\ cm_pc = "summary"
    /\ cm_counts' = <<PassedCount(cm_results), Len(cm_results)>>
    /\ cm_said' = IF \A k \in 1..Len(cm_results) : cm_results[k].value
                  THEN "all" ELSE "some"
    /\ cm_pc' = "ended"
    /\ cm_exit' = 0
    /\ UNCHANGED <<cm_health, cm_ran, cm_results, cmOthers>>

CMNext ==
    \/ CM_Health
    \/ CM_Sequential
    \/ CM_Parallel
    \/ CM_Hierarchical
    \/ CM_AgentAsTool
    \/ CM_Loop
    \/ CM_Summary

CMIdle ==
    /\ cm_pc = "idle"
    /\ cm_health = NoHealth
    /\ cm_ran = <<>>
    /\ cm_results = <<>>
    /\ cm_counts = <<0, 0>>
    /\ cm_said = "none"
    /\ cm_exit = -1

\* GET /health returned status 200
HealthPassed == cm_health.kind = "return" /\ cm_health.status = 200

\* C24: when the health check of the complex-agents script does not return
\* status 200 (a transport failure returns status 0), no pattern test is
\* called, so none issues a request, and the script exits with code 1
C24_HealthGatesEverything ==
    (cm_health.kind # "none" /\ ~HealthPassed) =>
        /\ cm_ran = <<>>
        /\ cm_pc = "exited"
        /\ cm_exit = 1

\* the server was unreachable and the script has exited
C24_Witness ==
    /\ cm_health.kind = "return"
    /\ cm_health.status = 0
    /\ cm_pc = "exited"

\* C25: once the health check has passed the five pattern tests are called
\* in the order of Patterns, each recorded under its key, an exception as
\* False; the script does not exit before the summary, which counts five
\* results and announces that all patterns work exactly when all five are
\* True
C25_FivePatternsAlways ==
    HealthPassed =>
        /\ cm_pc # "exited"
        /\ Len(cm_ran) = Len(cm_results)
        /\ \A k \in 1..Len(cm_ran) :
            /\ cm_ran[k].key = Patterns[k]
            /\ cm_results[k].key = Patterns[k]
            /\ cm_results[k].value = (cm_ran[k].outcome = "True")
        /\ cm_pc \in {"summary", "ended"} => Len(cm_results) = Len(Patterns)
        /\ cm_pc = "ended" =>
            /\ cm_counts[2] = 5
            /\ cm_said = IF \A k \in 1..5 : cm_ran[k].outcome = "True"
                         THEN "all" ELSE "some"

\* an exception left the third pattern test and the script went on to the
\* summary
C25_Witness ==
    /\ cm_pc = "ended"
    /\ cm_ran[3].outcome = "raised"
    /\ cm_ran[5].outcome = "True"
    /\ cm_said = "some"

-----------------------------------------------------------------------------
(* run_turn of test_complex_agents.py and of test_sessions.py               *)

\* f"ERROR: {events}"
ErrorTextOfSessions(events) == PyStr(<<"ERROR: ">> \o PyRepr(events))

\* parts[0].get('text', '')[:150]: [ok, val, exc]
TextOfSessions(parts) ==
    Only({ IF text.ok THEN PySlice(text.val) ELSE text
           : text \in {TextOf(parts)} })

\* run_turn of test_sessions.py, given what make_request did: [ok, val, exc]
run_turn_sessions(o) ==
    IF o.kind = "raise" THEN PyErr(o.exc)
    ELSE IF o.status = 200 /\ o.body.t = "list" /\ Len(o.body.items) > 0
    THEN Only({ IF ~parts.ok THEN parts
                ELSE IF Truthy(parts.val) THEN TextOfSessions(parts.val)
                ELSE PyOk(ErrorTextOfSessions(o.body))
                : parts \in {PartsOf(o.body)} })
    ELSE PyOk(ErrorTextOfSessions(o.body))

\* what the server may send for /run
RunBodies == FanBodies \cup LoopBodies \cup PipeBodies
RunAnswers == AnswersOver(RunBodies)

NotCalled == [ok |-> FALSE, val |-> PyNone, exc |-> "not called"]

RTInit ==
    /\ rt_srv \in RunAnswers
    /\ rt_made = make_request(rt_srv)
    /\ rt_ret = NotCalled
    /\ rt_ret_s = NotCalled

\* run_turn of test_complex_agents.py
RT_Complex ==
    /\ rt_ret = NotCalled
    /\ rt_ret' = run_turn(rt_srv)
    /\ UNCHANGED <<rt_srv, rt_made, rt_ret_s, rtOthers>>

\* run_turn of test_sessions.py
RT_Sessions ==
    /\ rt_ret_s = NotCalled
    /\ rt_ret_s' = run_turn_sessions(rt_made)
    /\ UNCHANGED <<rt_srv, rt_made, rt_ret, rtOthers>>

RTNext == RT_Complex \/ RT_Sessions

RTIdle ==
    /\ rt_srv = Unreachable
    /\ rt_made = NoResult
    /\ rt_ret = NotCalled
    /\ rt_ret_s = NotCalled

\* events is a non-empty list whose first event has a non-empty parts list
HasFirstPart(events) ==
    /\ events.t = "list" /\ events.items # <<>>
    /\ Path(events, <<First, Key("content"), Key("parts")>>).ok
    /\ Path(events, <<First, Key("content"), Key("parts")>>).val.t = "list"
    /\ Path(events, <<First, Key("content"), Key("parts")>>).val.items # <<>>

\* the text of the first part of the first event
FirstText(events) ==
    Path(events, <<First, Key("content"), Key("parts"), First, Key("text")>>)

\* a string that starts with 'ERROR:'
StartsWithError(v) ==
    v.t = "str" /\ v.s # <<>> /\ v.s[1] \in {"ERROR: ", "ERROR: status="}

\* what the claim asks of a result r of run_turn
AsClaimed(r) ==
    /\ r.ok
    /\ IF rt_made.status = 200 /\ HasFirstPart(rt_made.body)
       THEN FirstText(rt_made.body).ok => r.val = FirstText(rt_made.body).val
       ELSE StartsWithError(r.val)

\* C26: for every (status, body) that make_request returns, neither run_turn
\* raises; each returns the text of the first part of the first event when
\* the status is 200 and the body is a non-empty list whose first event has
\* a non-empty parts list, and a string starting with 'ERROR:' otherwise
C26_RunTurnNeverRaises ==
    rt_made.kind = "return" =>
        /\ rt_ret # NotCalled => AsClaimed(rt_ret)
        /\ rt_ret_s # NotCalled => AsClaimed(rt_ret_s)

-----------------------------------------------------------------------------
(* the session ids of test_session_isolation, test_multiple_sessions and    *)
(* test_parallel_fanout                                                     *)

\* what random.randint(lo, hi) may return: the ends of the range and one
\* value between
Randint(lo, hi) == {lo, lo + 1, hi}

\* f"session_A_{random.randint(1000, 9999)}"
SessionA(n) == "session_A_" \o ToString(n)
\* f"session_B_{random.randint(1000, 9999)}"
SessionB(n) == "session_B_" \o ToString(n)

\* the id without the index of the round
MultiSessionIdNoIndex(i, n) == "multi_session_" \o ToString(n)

\* f"multi_session_{i}_{random.randint(1000, 9999)}"
MultiSessionId(i, n) ==
    "multi_session_" \o ToString(i) \o "_" \o ToString(n)

\* len(problems)
Problems == 3

\* the literal each id of sessions begins with
FanPrefixes == <<"parallel_analyst_", "parallel_scientist_", "parallel_artist_">>

\* f"parallel_analyst_{random.randint(10000, 99999)}" and the two others
FanSessionId(k, n) == FanPrefixes[k] \o ToString(n)

IDInit ==
    /\ id_isolation = <<>>
    /\ id_multi = <<>>
    /\ id_fan = <<>>

\* test_session_isolation draws session_a and session_b
ID_Isolation ==
    /\ id_isolation = <<>>
    /\ \E a, b \in Randint(1000, 9999) :
        id_isolation' = <<SessionA(a), SessionB(b)>>
    /\ UNCHANGED <<id_multi, id_fan, idOthers>>

\* the first loop of test_multiple_sessions draws an id in each round
ID_Multi ==
    /\ id_multi = <<>>
    /\ \E draws \in [1..Problems -> Randint(1000, 9999)] :
        id_multi' = [k \in 1..Problems |-> MultiSessionId(k - 1, draws[k])]
    /\ UNCHANGED <<id_isolation, id_fan, idOthers>>

\* test_parallel_fanout builds sessions
ID_Fan ==
    /\ id_fan = <<>>
    /\ \E draws \in [1..Len(FanPrefixes) -> {10000, 99999}] :
        id_fan' = [k \in 1..Len(FanPrefixes) |-> FanSessionId(k, draws[k])]
    /\ UNCHANGED <<id_isolation, id_multi, idOthers>>

IDNext == ID_Isolation \/ ID_Multi \/ ID_Fan

IDIdle ==
    /\ id_isolation = <<"idle">>
    /\ id_multi = <<>>
    /\ id_fan = <<>>

\* no two entries of a sequence are equal
Distinct(ids) ==
    \A i, j \in 1..Len(ids) : i # j => ids[i] # ids[j]

\* C28: whatever the random draws, the session ids one test flow uses for
\* its independent contexts are pairwise distinct: session A and session B
\* of test_session_isolation, the three sessions of test_multiple_sessions
\* and the three sessions of test_parallel_fanout
C28_SessionIdsDistinct ==
    /\ Distinct(id_isolation)
    /\ Distinct(id_multi)
    /\ Distinct(id_fan)

\* every draw of the three flows gave the same number as the others of its
\* flow
C28_Witness ==
    /\ id_isolation = <<"session_A_1000", "session_B_1000">>
    /\ id_multi =
        <<"multi_session_0_9999", "multi_session_1_9999",
          "multi_session_2_9999">>
    /\ id_fan =
        <<"parallel_analyst_10000", "parallel_scientist_10000",
          "parallel_artist_10000">>

-----------------------------------------------------------------------------
(* test_assistants.py: the requests of test_thread_lifecycle                *)

\* test_thread_lifecycle has returned
TlReturned == Len(as_results) >= 2

\* thread.get('id') of what the create call returned
CreatedId == DictGet(as_created.body, "id", PyNone).val

\* the places in as_log of the requests test_thread_lifecycle makes after
\* the create call, which is at place 2
TlLater == 3..Min(Len(as_log), 8)

-----------------------------------------------------------------------------
(* make_request: the body of the request                                    *)

\* C30: make_request attaches a body to the request exactly when data is
\* truthy: for a non-empty mapping the body is its JSON serialization, which
\* json.loads reads back as data; for None and for the empty mapping {}
\* (POST /v1/threads) the request has no body
C30_BodyIffDataTruthy ==
    \A k \in 1..Len(mr_sent) :
        /\ mr_sent[k].data.hasBody <=> mr_data \notin {PyNone, EmptyDict}
        /\ mr_sent[k].data.hasBody =>
            /\ JsonLoads(mr_sent[k].data.body).ok
            /\ JsonLoads(mr_sent[k].data.body).val = mr_data
        /\ ~mr_sent[k].data.hasBody => mr_sent[k].data.body = <<>>

\* the POST with {} has been sent, without a body
C30_Witness ==
    /\ mr_method = "POST"
    /\ mr_data = EmptyDict
    /\ Len(mr_sent) = 1
    /\ ~mr_sent[1].data.hasBody

-----------------------------------------------------------------------------
(* Specifications *)

\* one call of make_request against every answer of the server
InitReq ==
    /\ MRInit /\ ASIdle /\ ISIdle /\ ADIdle /\ SSIdle /\ FOIdle /\ SAIdle
    /\ MTIdle /\ LPIdle /\ PLIdle /\ CMIdle /\ RTIdle /\ IDIdle
SpecReq == InitReq /\ [][MRNext]_vars

\* one run of test_assistants.py
InitAssist ==
    /\ ASInit /\ MRIdle /\ ISIdle /\ ADIdle /\ SSIdle /\ FOIdle /\ SAIdle
    /\ MTIdle /\ LPIdle /\ PLIdle /\ CMIdle /\ RTIdle /\ IDIdle
SpecAssist == InitAssist /\ [][ASNext]_vars

\* one run of test_thread_isolation.py
InitIso ==
    /\ ISInit /\ MRIdle /\ ASIdle /\ ADIdle /\ SSIdle /\ FOIdle /\ SAIdle
    /\ MTIdle /\ LPIdle /\ PLIdle /\ CMIdle /\ RTIdle /\ IDIdle
SpecIso == InitIso /\ [][ISNext]_vars

\* one run of test_adk.py
InitAdk ==
    /\ ADInit /\ MRIdle /\ ASIdle /\ ISIdle /\ SSIdle /\ FOIdle /\ SAIdle
    /\ MTIdle /\ LPIdle /\ PLIdle /\ CMIdle /\ RTIdle /\ IDIdle
SpecAdk == InitAdk /\ [][ADNext]_vars

\* one call of test_sse_streaming
InitSse ==
    /\ SSInit /\ MRIdle /\ ASIdle /\ ISIdle /\ ADIdle /\ FOIdle /\ SAIdle
    /\ MTIdle /\ LPIdle /\ PLIdle /\ CMIdle /\ RTIdle /\ IDIdle
SpecSse == InitSse /\ [][SSNext]_vars

\* one call of test_parallel_fanout
InitFan ==
    /\ FOInit /\ MRIdle /\ ASIdle /\ ISIdle /\ ADIdle /\ SSIdle /\ SAIdle
    /\ MTIdle /\ LPIdle /\ PLIdle /\ CMIdle /\ RTIdle /\ IDIdle
SpecFan == InitFan /\ [][FONext]_vars

\* one call of test_session_api
InitSessApi ==
    /\ SAInit /\ MRIdle /\ ASIdle /\ ISIdle /\ ADIdle /\ SSIdle /\ FOIdle
    /\ MTIdle /\ LPIdle /\ PLIdle /\ CMIdle /\ RTIdle /\ IDIdle
SpecSessApi == InitSessApi /\ [][SANext]_vars

\* one call of test_multi_turn
InitMulti ==
    /\ MTInit /\ MRIdle /\ ASIdle /\ ISIdle /\ ADIdle /\ SSIdle /\ FOIdle
    /\ SAIdle /\ LPIdle /\ PLIdle /\ CMIdle /\ RTIdle /\ IDIdle
SpecMulti == InitMulti /\ [][MTNext]_vars

\* one call of test_loop_agent
InitLoop ==
    /\ LPInit /\ MRIdle /\ ASIdle /\ ISIdle /\ ADIdle /\ SSIdle /\ FOIdle
    /\ SAIdle /\ MTIdle /\ PLIdle /\ CMIdle /\ RTIdle /\ IDIdle
SpecLoop == InitLoop /\ [][LPNext]_vars
\* the same call, the interpreter going on to the next statement as long as
\* there is one
SpecLoopFair == InitLoop /\ [][LPNext]_vars /\ WF_vars(LPNext)

\* one call of test_sequential_pipeline
InitPipe ==
    /\ PLInit /\ MRIdle /\ ASIdle /\ ISIdle /\ ADIdle /\ SSIdle /\ FOIdle
    /\ SAIdle /\ MTIdle /\ LPIdle /\ CMIdle /\ RTIdle /\ IDIdle
SpecPipe == InitPipe /\ [][PLNext]_vars

\* one run of the test_complex_agents.py script
InitComplex ==
    /\ CMInit /\ MRIdle /\ ASIdle /\ ISIdle /\ ADIdle /\ SSIdle /\ FOIdle
    /\ SAIdle /\ MTIdle /\ LPIdle /\ PLIdle /\ RTIdle /\ IDIdle
SpecComplex == InitComplex /\ [][CMNext]_vars

\* one call of each run_turn for every answer of the server
InitRunTurn ==
    /\ RTInit /\ MRIdle /\ ASIdle /\ ISIdle /\ ADIdle /\ SSIdle /\ FOIdle
    /\ SAIdle /\ MTIdle /\ LPIdle /\ PLIdle /\ CMIdle /\ IDIdle
SpecRunTurn == InitRunTurn /\ [][RTNext]_vars

\* the session ids of the three flows, for every outcome of the draws
InitIds ==
    /\ IDInit /\ MRIdle /\ ASIdle /\ ISIdle /\ ADIdle /\ SSIdle /\ FOIdle
    /\ SAIdle /\ MTIdle /\ LPIdle /\ PLIdle /\ CMIdle /\ RTIdle
SpecIds == InitIds /\ [][IDNext]_vars

====
